---- MODULE Spec2Model ----
(***************************************************************************)
(* Citation-aware response formatting of sarah_streamlit.                  *)
(*                                                                         *)
(*   process_claude_response   (testing_app.py)  batch formatter           *)
(*   ClaudeClient.format_citations (chat.py)     per-block formatter       *)
(*   handle_streaming_response (app.py)          streaming driver          *)
(*                                                                         *)
(* Python strings are sequences of one-character strings, so slicing,      *)
(* searching and splicing are computed character by character.             *)
(***************************************************************************)
EXTENDS Integers, Sequences, FiniteSets, TLC

(***************************************************************************)
(* Bounds of the explored inputs.                                          *)
(***************************************************************************)
MaxLen == 3

MaxBlocks == 2

MaxCites == 2

(***************************************************************************)
(* Python values: an optional attribute / dict entry is absent, None, or   *)
(* holds a value (an integer in n, or a string in s).                      *)
(***************************************************************************)
Absent == [tag |-> "absent", n |-> 0, s |-> <<>>]

None == [tag |-> "none", n |-> 0, s |-> <<>>]

IntVal(i) == [tag |-> "val", n |-> i, s |-> <<>>]

StrVal(str) == [tag |-> "val", n |-> 0, s |-> str]

\* getattr(x, name, default) / dict.get(name, default): the default is used
\* only when the attribute or key is absent; a stored None is returned as is.
GetOr(field, default) == IF field.tag = "absent" THEN default ELSE field

\* Python truthiness of an optional integer (None and 0 are falsy).
TruthyInt(field) == field.tag = "val" /\ field.n # 0

Min(a, b) == IF a < b THEN a ELSE b

Max(a, b) == IF a > b THEN a ELSE b

(***************************************************************************)
(* String primitives.                                                      *)
(***************************************************************************)
Digits == <<"0", "1", "2", "3", "4", "5", "6", "7", "8", "9">>

RECURSIVE IntToStr(_)
\* str(n) for n >= 0, as used by the f-strings.
IntToStr(n) ==
    IF n < 10 THEN <<Digits[n + 1]>>
    ELSE IntToStr(n \div 10) \o <<Digits[(n % 10) + 1]>>

\* Python index normalisation for slicing a sequence of length len.
NormIdx(i, len) == IF i < 0 THEN Max(0, len + i) ELSE Min(i, len)

\* s[:i]
PyPrefix(s, i) == SubSeq(s, 1, NormIdx(i, Len(s)))

\* s[i:]
PySuffix(s, i) == SubSeq(s, NormIdx(i, Len(s)) + 1, Len(s))

\* s.startswith(p)
StartsWith(s, p) == Len(p) <= Len(s) /\ SubSeq(s, 1, Len(p)) = p

\* sub occurs in s at 0-based offset i
OccursAt(sub, s, i) ==
    /\ i >= 0
    /\ i + Len(sub) <= Len(s)
    /\ SubSeq(s, i + 1, i + Len(sub)) = sub

\* sub in s
Occurs(sub, s) == \E i \in 0..Len(s) : OccursAt(sub, s, i)

\* s.find(sub): the lowest offset, -1 when absent
Find(sub, s) ==
    IF Occurs(sub, s)
    THEN CHOOSE i \in 0..Len(s) :
            OccursAt(sub, s, i) /\ \A j \in 0..(i - 1) : ~OccursAt(sub, s, j)
    ELSE -1

IsSpace(ch) == ch \in {" ", "\n", "\t"}

RECURSIVE LStrip(_)
LStrip(s) == IF s # <<>> /\ IsSpace(Head(s)) THEN LStrip(Tail(s)) ELSE s

RECURSIVE RStrip(_)
RStrip(s) ==
    IF s # <<>> /\ IsSpace(s[Len(s)]) THEN RStrip(SubSeq(s, 1, Len(s) - 1)) ELSE s

\* s.strip()
Strip(s) == RStrip(LStrip(s))

RECURSIVE RemoveChar(_, _)
\* s.replace(ch, '') for a one-character ch
RemoveChar(s, ch) ==
    IF s = <<>> THEN <<>>
    ELSE IF Head(s) = ch THEN RemoveChar(Tail(s), ch)
    ELSE <<Head(s)>> \o RemoveChar(Tail(s), ch)

RECURSIVE ReplaceAll(_, _)
\* s.replace(sub, '') for a non-empty sub, scanning left to right
ReplaceAll(s, sub) ==
    IF s = <<>> THEN <<>>
    ELSE IF StartsWith(s, sub) THEN ReplaceAll(SubSeq(s, Len(sub) + 1, Len(s)), sub)
    ELSE <<Head(s)>> \o ReplaceAll(Tail(s), sub)

\* s.split(sep)[0] for a one-character sep
BeforeFirst(s, sep) ==
    IF Occurs(<<sep>>, s) THEN SubSeq(s, 1, Find(<<sep>>, s)) ELSE s

\* what follows the first sep in s (s itself when sep is absent)
AfterFirst(s, sep) ==
    IF Occurs(<<sep>>, s) THEN SubSeq(s, Find(<<sep>>, s) + 2, Len(s)) ELSE s

\* s.split(sep, 2)[-1]: at most two splits, the last piece
SplitTwoLast(s, sep) == AfterFirst(AfterFirst(s, sep), sep)

RECURSIVE CollapseWs(_)
\* ' '.join(s.split()): whitespace runs become one space, the ends are trimmed
CollapseWs(s) ==
    LET t == LStrip(s)
    IN  IF t = <<>> THEN <<>>
        ELSE IF Tail(t) = <<>> THEN t
        ELSE IF IsSpace(Head(Tail(t)))
             THEN IF LStrip(Tail(t)) = <<>> THEN <<Head(t)>>
                  ELSE <<Head(t), " ">> \o CollapseWs(LStrip(Tail(t)))
             ELSE <<Head(t)>> \o CollapseWs(Tail(t))

(***************************************************************************)
(* Citations and content blocks, as process_claude_response reads them.    *)
(* shape is "dict" for dict-shaped blocks and citations, "obj" for         *)
(* attribute-carrying objects (the Citation / TextBlock dataclasses).      *)
(***************************************************************************)
Citation(type, title, cited, endChar, endPage, endBlock, startPage) ==
    [type              |-> type,
     document_title    |-> title,
     cited_text        |-> cited,
     end_char_index    |-> endChar,
     end_page_number   |-> endPage,
     end_block_index   |-> endBlock,
     start_page_number |-> startPage]

\* The control character U+0002 that the upstream format puts around quotes.
STX == "^B"

\* Block texts: the empty text and the first MaxLen characters of "abab...".
TextOf(len) == [i \in 1..len |-> IF i % 2 = 1 THEN "a" ELSE "b"]

Texts == {TextOf(0), TextOf(MaxLen)}

\* Where a citation points: a character offset (any value the field can
\* hold), a page, a content block, or no location at all.
CharAt(endChar, title, cited) ==
    Citation("char_location", title, cited, endChar, Absent, Absent, Absent)

OnPage(page, title, cited) ==
    Citation("page_location", title, cited, None, IntVal(page), None, IntVal(page))

InBlock(endBlock, title, cited) ==
    Citation("content_block_location", title, cited, None, None, IntVal(endBlock), None)

NoLocation(title, cited) ==
    Citation("absent", title, cited, Absent, Absent, Absent, Absent)

EndOffsets == {Absent, None} \cup {IntVal(e) : e \in 0..MaxLen}

\* Quoted excerpts: found in a text ("a"), found only after cleaning ("a "),
\* never found ("c"), empty.
Excerpts == {StrVal(<<"a">>), StrVal(<<"a", " ">>), StrVal(<<"c">>), StrVal(<<>>)}

PlacementCitations ==
    {CharAt(e, StrVal(<<"P">>), StrVal(<<"a">>)) : e \in EndOffsets}
    \cup {CharAt(IntVal(1), StrVal(<<"P">>), StrVal(<<>>))}
    \cup {OnPage(1, StrVal(<<"P">>), StrVal(<<"a">>))}
    \cup {InBlock(1, StrVal(<<"P">>), x) : x \in Excerpts}
    \cup {NoLocation(StrVal(<<"P">>), StrVal(<<"a">>))}

\* Malformed metadata: no title, an excerpt of None, control characters.
LedgerCitations ==
    {NoLocation(t, x) : t \in {StrVal(<<"Q">>), Absent},
                        x \in {StrVal(<<"a">>), StrVal(<<STX, "a">>), None}}

CitationInputs == PlacementCitations \cup LedgerCitations

\* A content block: its text and its citations (absent, None or a list).
Block(text, citations) == [text |-> text, citations |-> citations]

ListVal(list) == [tag |-> "val", list |-> list]

NoList(tag) == [tag |-> tag, list |-> <<>>]

\* The blocks that carry exactly k citations.
BlocksWith(k) ==
    IF k = 0
    THEN {Block(t, c) : t \in Texts, c \in {NoList("absent"), NoList("none"), ListVal(<<>>)}}
    ELSE {Block(t, ListVal(cs)) : t \in Texts, cs \in [1..k -> CitationInputs]}

RECURSIVE ResponsesOf(_, _)
\* The responses of exactly b blocks that carry at most k citations in all.
ResponsesOf(b, k) ==
    IF b = 0 THEN {<<>>}
    ELSE UNION {{<<blk>> \o rest : blk \in BlocksWith(j), rest \in ResponsesOf(b - 1, k - j)}
                : j \in 0..k}

\* Responses of up to the given number of blocks.
ResponsesWithin(blocks) == UNION {ResponsesOf(b, MaxCites) : b \in 0..blocks}

(***************************************************************************)
(* process_claude_response: the pieces of one citation's processing.       *)
(***************************************************************************)
\* float('inf'), the sort key of a citation that carries no end position.
Inf == 1000000

\* The key of sorted(): getattr(x, 'end_char_index', None) or ... or inf.
\* getattr on a dict finds none of the keys, so every dict citation sorts as inf.
SortKey(c, shp) ==
    IF shp = "dict" THEN Inf
    ELSE IF TruthyInt(c.end_char_index) THEN c.end_char_index.n
    ELSE IF TruthyInt(c.end_page_number) THEN c.end_page_number.n
    ELSE IF TruthyInt(c.end_block_index) THEN c.end_block_index.n
    ELSE Inf

RECURSIVE InsertDesc(_, _, _)
\* x placed after every element whose key is >= its own (a stable insertion).
InsertDesc(sorted, x, shp) ==
    IF sorted = <<>> THEN <<x>>
    ELSE IF SortKey(Head(sorted), shp) >= SortKey(x, shp)
         THEN <<Head(sorted)>> \o InsertDesc(Tail(sorted), x, shp)
         ELSE <<x>> \o sorted

RECURSIVE SortedCitations(_, _)
\* sorted(citations, key=..., reverse=True): descending and stable.
SortedCitations(citations, shp) ==
    IF citations = <<>> THEN <<>>
    ELSE InsertDesc(SortedCitations(SubSeq(citations, 1, Len(citations) - 1), shp),
                    citations[Len(citations)], shp)

\* f"{value}" of a title: None prints as the word None.
TitleText(title) == IF title.tag = "none" THEN <<"N", "o", "n", "e">> ELSE title.s

\* citation.get('document_title', f'Source {citation_counter}')
DocTitle(c, counter) ==
    TitleText(GetOr(c.document_title,
                    StrVal(<<"S", "o", "u", "r", "c", "e", " ">> \o IntToStr(counter))))

\* citation.get('cited_text', ''), before .strip() is called on it
RawCited(c) == GetOr(c.cited_text, StrVal(<<>>))

\* citation.get('type', 'unknown')
CitationType(c) == IF c.type = "absent" THEN "unknown" ELSE c.type

\* .strip(), then .replace('\u0002', '').strip()
CleanCited(raw) == Strip(RemoveChar(Strip(raw), STX))

PageTag == <<"[", "P", "a", "g", "e">>

\* cited_text.startswith('[Page')
HasPageTag(cited) == StartsWith(cited, PageTag)

\* cited_text.split(']')[0].replace('[Page ', '')
PageMatch(cited) == ReplaceAll(BeforeFirst(cited, "]"), PageTag \o <<" ">>)

\* Python truthiness of a page number (an int from the metadata, or a string)
TruthyPage(page) == page.tag = "val" /\ (page.n # 0 \/ page.s # <<>>)

\* The page number kept for the reference: the metadata's, else the tag's.
PageNumber(c, cited) ==
    LET meta == GetOr(c.start_page_number, None)
    IN  IF HasPageTag(cited) /\ ~TruthyPage(meta) THEN StrVal(PageMatch(cited)) ELSE meta

\* The excerpt kept for the reference: cited_text.split('\n', 2)[-1].strip()
\* when the text starts with a page tag.
StoredCited(cited) ==
    IF HasPageTag(cited) THEN Strip(SplitTwoLast(cited, "\n")) ELSE cited

\* ref_key = f"{doc_title}:{cited_text}"
RefKey(title, cited) == title \o <<":">> \o cited

\* The position in references of the entry stored under key, 0 when none.
IndexOfKey(refs, key) ==
    IF \E i \in 1..Len(refs) : refs[i].key = key
    THEN CHOOSE i \in 1..Len(refs) : refs[i].key = key
    ELSE 0

\* ref_key not in references
\* Variant in which every key is taken for a new one (no ledger lookup).
KeyAlwaysNew(refs, key) == TRUE

KeyIsNew(refs, key) == IndexOfKey(refs, key) = 0

\* citation_counter += 1
\* Variant in which the counter is never advanced.
CounterStuck(counter) == counter

\* Variant in which the counter advances by two.
CounterSkips(counter) == counter + 2

NextCounter(counter) == counter + 1

\* references after the citation is recorded (unchanged for a known key)
Recorded(refs, counter, c) ==
    LET title == DocTitle(c, counter)
        clean == CleanCited(RawCited(c).s)
        cited == StoredCited(clean)
        key   == RefKey(title, cited)
    IN  IF KeyIsNew(refs, key)
        THEN Append(refs, [key         |-> key,
                           number      |-> counter,
                           title       |-> title,
                           cited_text  |-> cited,
                           type        |-> CitationType(c),
                           page_number |-> PageNumber(c, clean)])
        ELSE refs

\* citation_text = f" [{references[ref_key]['number']}]"
Marker(number) == <<" ", "[">> \o IntToStr(number) \o <<"]">>

\* end_idx, by citation type; None when end_char_index is stored as None.
\* Variant that ignores the location and always inserts at the end of the text.
EndIdxAlwaysEnd(c, cited, text) == IntVal(Len(text))

\* Variant whose content_block_location fallback inserts at the start of the text.
EndIdxFallbackAtStart(c, cited, text) ==
    LET type == CitationType(c)
    IN  IF type = "char_location" THEN GetOr(c.end_char_index, IntVal(Len(text)))
        ELSE IF type = "content_block_location"
             THEN IF Occurs(cited, text) THEN IntVal(Find(cited, text) + Len(cited))
                  ELSE IntVal(0)
        ELSE IntVal(Len(text))

EndIdx(c, cited, text) ==
    LET type == CitationType(c)
    IN  IF type = "char_location" THEN GetOr(c.end_char_index, IntVal(Len(text)))
        ELSE IF type = "page_location" THEN IntVal(Len(text))
        ELSE IF type = "content_block_location"
             THEN IF Occurs(cited, text) THEN IntVal(Find(cited, text) + Len(cited))
                  ELSE IntVal(Len(text))
        ELSE IntVal(Len(text))

\* current_text[:end_idx] + citation_text + current_text[end_idx:]
\* (a slice bound of None is the end of s[:i] and the start of s[i:])
Splice(text, idx, marker) ==
    IF idx.tag = "none" THEN text \o marker \o text
    ELSE PyPrefix(text, idx.n) \o marker \o PySuffix(text, idx.n)

\* "\n\n**References**\n\n"
ReferencesHeader ==
    <<"\n", "\n", "*", "*", "R", "e", "f", "e", "r", "e", "n", "c", "e", "s",
      "*", "*", "\n", "\n">>

\* The longest quoted excerpt shown, and where a longer one is cut.
MaxCitedLen == 150

CutCitedLen == 147

\* Variant that writes the quoted segment for every entry.
RefTextAlwaysQuoted(ref) ==
    <<"[">> \o IntToStr(ref.number) \o <<"]", " ">> \o ref.title
    \o <<":", " ", "\"">> \o CollapseWs(ref.cited_text) \o <<"\"">>
    \o (IF TruthyPage(ref.page_number)
        THEN <<" ", "(", "P", "a", "g", "e", " ">>
             \o (IF ref.page_number.s # <<>> THEN ref.page_number.s
                 ELSE IntToStr(ref.page_number.n))
             \o <<")">>
        ELSE <<>>)
    \o <<"\n", "\n">>

\* One entry of the references section, followed by a blank line.
RefText(ref) ==
    LET shown == CollapseWs(ref.cited_text)
        quote == IF Len(shown) > MaxCitedLen
                 THEN SubSeq(shown, 1, CutCitedLen) \o <<".", ".", ".">>
                 ELSE shown
    IN  <<"[">> \o IntToStr(ref.number) \o <<"]", " ">> \o ref.title
        \o (IF ref.cited_text # <<>> THEN <<":", " ", "\"">> \o quote \o <<"\"">> ELSE <<>>)
        \o (IF TruthyPage(ref.page_number)
            THEN <<" ", "(", "P", "a", "g", "e", " ">>
                 \o (IF ref.page_number.s # <<>> THEN ref.page_number.s
                     ELSE IntToStr(ref.page_number.n))
                 \o <<")">>
            ELSE <<>>)
        \o <<"\n", "\n">>

RECURSIVE InsertByNumber(_, _)
InsertByNumber(sorted, ref) ==
    IF sorted = <<>> THEN <<ref>>
    ELSE IF Head(sorted).number <= ref.number
         THEN <<Head(sorted)>> \o InsertByNumber(Tail(sorted), ref)
         ELSE <<ref>> \o sorted

RECURSIVE SortedByNumber(_)
\* sorted(references.items(), key=lambda x: x[1]['number'])
SortedByNumber(refs) ==
    IF refs = <<>> THEN <<>>
    ELSE InsertByNumber(SortedByNumber(SubSeq(refs, 1, Len(refs) - 1)), refs[Len(refs)])

RECURSIVE RefTexts(_)
RefTexts(refs) == IF refs = <<>> THEN <<>> ELSE RefText(Head(refs)) \o RefTexts(Tail(refs))

\* The references section: nothing when no citation was recorded.
ReferencesSection(refs) ==
    IF refs = <<>> THEN <<>> ELSE ReferencesHeader \o RefTexts(SortedByNumber(refs))

\* if not citations
NoCitations(block) == block.citations.tag # "val" \/ block.citations.list = <<>>

\* What a block without citations adds to formatted_text.
\* Variant that puts a blank line after a block without citations.
PassedThroughSeparated(block) == block.text \o <<"\n", "\n">>

PassedThrough(block) == block.text

(***************************************************************************)
(* process_claude_response as a state machine: one step per loop iteration *)
(* of the block loop, per iteration of the citation loop, and one for the  *)
(* references section.                                                     *)
(***************************************************************************)
VARIABLES
    content_blocks,     \* response.content, the input
    shape,              \* "dict" or "obj": how blocks and citations are accessed
    pc,                 \* "blocks" | "citations" | "done" | "raised"
    block_index,        \* blocks the outer loop has taken
    sorted_citations,   \* sorted_citations of the current block
    citation_index,     \* citations of the current block already processed
    current_text,       \* current_text of the current block
    formatted_text,     \* formatted_text
    references,         \* references, in insertion order
    citation_counter,   \* citation_counter
    placed,             \* per processed citation: block, citation, ref_key, number,
                        \* end_idx and the current_text it was spliced into
    \* handle_streaming_response
    has_sources,        \* the has_sources argument
    delta_shape,        \* "attr": deltas carry attributes; "dict": deltas are dicts
    stream_pc,          \* "idle" | "running" | "returned" | "raised"
    stream_text,        \* current_text of handle_streaming_response
    stream_citations,   \* current_citations
    text_blocks,        \* text_blocks
    displayed,          \* the last text handed to placeholder.markdown
    result,             \* the value returned
    phase,              \* the sender: "start" | "awaiting" | "inblock" | "complete" | "stopped"
    sent,               \* the sender: per block started, the text and citations sent for it
    well_formed,        \* the sender: the events so far follow the event grammar
    deltas,             \* the sender: deltas sent so far
    \* several calls of process_claude_response at once
    calls,              \* per call in progress, the locals of that call
    \* the database (db.py) and the testing UI (testing_app.py)
    prompts,            \* rows of table prompts: id, name, version, created_at
    questions,          \* rows of table questions: id, name, created_at
    sources,            \* rows of table sources: id, question_id, title, content
    workers,            \* per script thread inside add_prompt: pc, name, current_version
    session_state,      \* st.session_state of the browser session
    clock,              \* CURRENT_TIMESTAMP, as a logical clock
    audit               \* history: what was passed to, and called on, the database

batch_vars ==
    <<content_blocks, shape, pc, block_index, sorted_citations, citation_index,
      current_text, formatted_text, references, citation_counter, placed>>

stream_vars ==
    <<has_sources, delta_shape, stream_pc, stream_text, stream_citations, text_blocks,
      displayed, result, phase, sent, well_formed, deltas>>

call_vars == <<calls>>

app_vars == <<prompts, questions, sources, workers, session_state, clock, audit>>

vars == <<batch_vars, stream_vars, call_vars, app_vars>>

\* The database is empty and no UI session is open.
AppIdle ==
    /\ prompts = {}
    /\ questions = {}
    /\ sources = {}
    /\ workers = <<>>
    /\ session_state = <<>>
    /\ clock = 0
    /\ audit = <<>>

\* No other call is in progress.
NoCalls == calls = <<>>

\* handle_streaming_response is not running.
StreamIdle ==
    /\ has_sources = FALSE
    /\ delta_shape = "attr"
    /\ stream_pc = "idle"
    /\ stream_text = <<>>
    /\ stream_citations = <<>>
    /\ text_blocks = <<>>
    /\ displayed = <<>>
    /\ result = <<>>
    /\ phase = "start"
    /\ sent = <<>>
    /\ well_formed = TRUE
    /\ deltas = 0

Init ==
    /\ StreamIdle
    /\ NoCalls
    /\ AppIdle
    /\ content_blocks \in ResponsesWithin(MaxBlocks)
    /\ shape \in {"dict", "obj"}
    /\ pc = "blocks"
    /\ block_index = 0
    /\ sorted_citations = <<>>
    /\ citation_index = 0
    /\ current_text = <<>>
    /\ formatted_text = <<>>
    /\ references = <<>>
    /\ citation_counter = 1
    /\ placed = <<>>

\* A block without citations: formatted_text += text; continue
PassThrough ==
    /\ pc = "blocks"
    /\ block_index < Len(content_blocks)
    /\ NoCitations(content_blocks[block_index + 1])
    /\ formatted_text' = formatted_text \o PassedThrough(content_blocks[block_index + 1])
    /\ block_index' = block_index + 1
    /\ UNCHANGED <<content_blocks, shape, pc, sorted_citations, citation_index,
                   current_text, references, citation_counter, placed>>
    /\ UNCHANGED <<stream_vars, call_vars, app_vars>>

\* A block with citations: sort them and start from the raw text.
BeginBlock ==
    /\ pc = "blocks"
    /\ block_index < Len(content_blocks)
    /\ ~NoCitations(content_blocks[block_index + 1])
    /\ sorted_citations' =
          SortedCitations(content_blocks[block_index + 1].citations.list, shape)
    /\ current_text' = content_blocks[block_index + 1].text
    /\ citation_index' = 0
    /\ block_index' = block_index + 1
    /\ pc' = "citations"
    /\ UNCHANGED <<content_blocks, shape, formatted_text, references,
                   citation_counter, placed>>
    /\ UNCHANGED <<stream_vars, call_vars, app_vars>>

\* One iteration of the citation loop: record the reference, splice the marker.
ProcessCitation ==
    /\ pc = "citations"
    /\ citation_index < Len(sorted_citations)
    /\ LET c == sorted_citations[citation_index + 1]
       IN  /\ RawCited(c).tag # "none"
           /\ LET title  == DocTitle(c, citation_counter)
                  cited  == StoredCited(CleanCited(RawCited(c).s))
                  key    == RefKey(title, cited)
                  refs   == Recorded(references, citation_counter, c)
                  number == refs[IndexOfKey(refs, key)].number
                  idx    == EndIdx(c, cited, current_text)
              IN  /\ references' = refs
                  /\ citation_counter' =
                        IF KeyIsNew(references, key) THEN NextCounter(citation_counter)
                        ELSE citation_counter
                  /\ current_text' = Splice(current_text, idx, Marker(number))
                  /\ placed' = Append(placed, [block    |-> block_index,
                                               citation |-> c,
                                               key      |-> key,
                                               number   |-> number,
                                               end_idx  |-> idx,
                                               before   |-> current_text])
    /\ citation_index' = citation_index + 1
    /\ UNCHANGED <<content_blocks, shape, pc, block_index, sorted_citations,
                   formatted_text>>
    /\ UNCHANGED <<stream_vars, call_vars, app_vars>>

\* cited_text is None: None.strip() raises AttributeError out of the function.
CitationRaises ==
    /\ pc = "citations"
    /\ citation_index < Len(sorted_citations)
    /\ RawCited(sorted_citations[citation_index + 1]).tag = "none"
    /\ pc' = "raised"
    /\ UNCHANGED <<content_blocks, shape, block_index, sorted_citations, citation_index,
                   current_text, formatted_text, references, citation_counter, placed>>
    /\ UNCHANGED <<stream_vars, call_vars, app_vars>>

\* The citation loop is over: formatted_text += current_text
FinishBlock ==
    /\ pc = "citations"
    /\ citation_index = Len(sorted_citations)
    /\ formatted_text' = formatted_text \o current_text
    /\ pc' = "blocks"
    /\ UNCHANGED <<content_blocks, shape, block_index, sorted_citations, citation_index,
                   current_text, references, citation_counter, placed>>
    /\ UNCHANGED <<stream_vars, call_vars, app_vars>>

\* The block loop is over: append the references section and return.
Finish ==
    /\ pc = "blocks"
    /\ block_index = Len(content_blocks)
    /\ formatted_text' = formatted_text \o ReferencesSection(references)
    /\ pc' = "done"
    /\ UNCHANGED <<content_blocks, shape, block_index, sorted_citations, citation_index,
                   current_text, references, citation_counter, placed>>
    /\ UNCHANGED <<stream_vars, call_vars, app_vars>>

Next ==
    \/ PassThrough
    \/ BeginBlock
    \/ ProcessCitation
    \/ CitationRaises
    \/ FinishBlock
    \/ Finish

Spec == Init /\ [][Next]_vars

(***************************************************************************)
(* Reading a formatted text back: markers and raw characters.              *)
(***************************************************************************)
\* An intact marker " [d]" starts at the head of s.
MarkerAtHead(s) ==
    /\ Len(s) >= 4
    /\ s[1] = " "
    /\ s[2] = "["
    /\ \E d \in 1..Len(Digits) : s[3] = Digits[d]
    /\ s[4] = "]"

RECURSIVE Unmark(_)
\* s with every intact marker deleted, in one pass from the left.
Unmark(s) ==
    IF s = <<>> THEN <<>>
    ELSE IF MarkerAtHead(s) THEN Unmark(SubSeq(s, 5, Len(s)))
    ELSE <<Head(s)>> \o Unmark(Tail(s))

RECURSIVE MarkerOffsets(_, _)
\* For each intact marker of s, from the left, the number of non-marker
\* characters before it (raw counts those already passed).
MarkerOffsets(s, raw) ==
    IF s = <<>> THEN <<>>
    ELSE IF MarkerAtHead(s) THEN <<raw>> \o MarkerOffsets(SubSeq(s, 5, Len(s)), raw)
    ELSE MarkerOffsets(Tail(s), raw + 1)

\* The number of offsets at which sub occurs in s.
Occurrences(sub, s) == Cardinality({i \in 0..Len(s) : OccursAt(sub, s, i)})

RECURSIVE IsSubsequence(_, _)
\* The characters of sub appear in s, in order.
IsSubsequence(sub, s) ==
    IF sub = <<>> THEN TRUE
    ELSE IF s = <<>> THEN FALSE
    ELSE IF Head(sub) = Head(s) THEN IsSubsequence(Tail(sub), Tail(s))
    ELSE IsSubsequence(sub, Tail(s))

RECURSIVE InsertAsc(_, _)
InsertAsc(sorted, x) ==
    IF sorted = <<>> THEN <<x>>
    ELSE IF Head(sorted) <= x THEN <<Head(sorted)>> \o InsertAsc(Tail(sorted), x)
    ELSE <<x>> \o sorted

RECURSIVE Ascending(_)
Ascending(seq) ==
    IF seq = <<>> THEN <<>>
    ELSE InsertAsc(Ascending(SubSeq(seq, 1, Len(seq) - 1)), seq[Len(seq)])

\* The citation loop of the current block has processed every citation.
BlockDone == pc = "citations" /\ citation_index = Len(sorted_citations)

\* The block the citation loop is working on.
CurrentBlock == content_blocks[block_index]

\* The entries of placed that belong to the current block, in processing order.
PlacedHere == SubSeq(placed, Len(placed) - citation_index + 1, Len(placed))

\* A citation that names its document and quotes a text.
Titled(c) == c.document_title.tag = "val" /\ RawCited(c).tag = "val"

\* Two citations carry the same (document_title, cited_text) pair.
SamePair(c, d) ==
    /\ Titled(c)
    /\ Titled(d)
    /\ c.document_title = d.document_title
    /\ RawCited(c) = RawCited(d)

\* The entries of references for the pair a citation carries.
EntriesFor(c) ==
    {k \in 1..Len(references) :
        /\ references[k].title = c.document_title.s
        /\ references[k].cited_text = StoredCited(CleanCited(RawCited(c).s))}

(***************************************************************************)
(* C1  Two citations of one response that carry the same (document_title,  *)
(* cited_text) pair show the same reference number, the marker spliced for *)
(* each is " [number]", and the returned text lists exactly one references *)
(* entry for the pair.                                                     *)
(***************************************************************************)
C1_SamePairSameNumber ==
    /\ \A i, j \in 1..Len(placed) :
          SamePair(placed[i].citation, placed[j].citation)
              => placed[i].number = placed[j].number
    /\ (pc = "citations" /\ citation_index > 0)
          => current_text = Splice(placed[Len(placed)].before, placed[Len(placed)].end_idx,
                                   Marker(placed[Len(placed)].number))
    /\ pc = "done"
          => \A i \in 1..Len(placed) :
                Titled(placed[i].citation)
                    => /\ Cardinality(EntriesFor(placed[i].citation)) = 1
                       /\ \A k \in EntriesFor(placed[i].citation) :
                             /\ references[k].number = placed[i].number
                             /\ Occurrences(RefText(references[k]), formatted_text) = 1

\* A finished response in which one pair was cited in two different blocks.
C1_Witness ==
    /\ pc = "done"
    /\ \E i, j \in 1..Len(placed) :
          /\ placed[i].block # placed[j].block
          /\ SamePair(placed[i].citation, placed[j].citation)

AllCharInRange(block) ==
    \A k \in 1..Len(block.citations.list) :
        LET c == block.citations.list[k]
        IN  /\ CitationType(c) = "char_location"
            /\ c.end_char_index.tag = "val"
            /\ c.end_char_index.n \in 0..Len(block.text)

\* The end offsets of a block's citations, ascending.
EndsAscending(block) ==
    Ascending([k \in 1..Len(block.citations.list) |-> block.citations.list[k].end_char_index.n])

(***************************************************************************)
(* C3 (as claimed)  A block whose citations are all char_location with end *)
(* offsets in 0..len(text) has them spliced in non-increasing order of end *)
(* offset; in the block's final text every marker is intact and sits right *)
(* after the raw prefix of length end_char_index.                          *)
(***************************************************************************)
C3_DescendingSplices ==
    (BlockDone /\ AllCharInRange(CurrentBlock))
        => /\ \A i, j \in 1..Len(PlacedHere) :
                 i < j => PlacedHere[i].end_idx.n >= PlacedHere[j].end_idx.n
           /\ Unmark(current_text) = CurrentBlock.text
           /\ MarkerOffsets(current_text, 0) = EndsAscending(CurrentBlock)

(***************************************************************************)
(* C4 (as claimed)  A block with k citations of any kinds ends with        *)
(* exactly k intact markers in its text, and deleting them gives back the  *)
(* block's raw text.                                                       *)
(***************************************************************************)
C4_MarkersOneToOne ==
    BlockDone
        => /\ Len(MarkerOffsets(current_text, 0)) = Len(sorted_citations)
           /\ Unmark(current_text) = CurrentBlock.text
           /\ Len(current_text) = Len(CurrentBlock.text) + 4 * Len(sorted_citations)

\* The response is one block with one char_location citation whose end
\* offset e satisfies 0 < e <= len(text).
OneCharCitation ==
    /\ Len(content_blocks) = 1
    /\ ~NoCitations(content_blocks[1])
    /\ Len(content_blocks[1].citations.list) = 1
    /\ LET c == content_blocks[1].citations.list[1]
       IN  /\ CitationType(c) = "char_location"
           /\ Titled(c)
           /\ c.end_char_index.tag = "val"
           /\ c.end_char_index.n > 0
           /\ c.end_char_index.n <= Len(content_blocks[1].text)

\* text[:e] + " [1]" + text[e:] for the only citation of the only block
OneCharBody ==
    LET text == content_blocks[1].text
        e    == content_blocks[1].citations.list[1].end_char_index.n
    IN  SubSeq(text, 1, e) \o <<" ", "[", "1", "]">> \o SubSeq(text, e + 1, Len(text))

\* [1] title: "cited_text"
QuotedEntry(title, cited) ==
    <<"[", "1", "]", " ">> \o title \o <<":", " ", "\"">> \o cited \o <<"\"">>

\* [1] title
BareEntry(title) == <<"[", "1", "]", " ">> \o title

NoBlockCited == \A b \in 1..Len(content_blocks) : NoCitations(content_blocks[b])

RECURSIVE JoinedTexts(_)
\* The blocks' raw texts, one after the other.
JoinedTexts(blocks) ==
    IF blocks = <<>> THEN <<>> ELSE Head(blocks).text \o JoinedTexts(Tail(blocks))

(***************************************************************************)
(* C6  A block whose citations are empty or absent adds exactly its raw    *)
(* text to the output, and a response none of whose blocks has a citation  *)
(* (a response of zero blocks included) is returned as the blocks' raw     *)
(* texts with no references section.                                       *)
(***************************************************************************)
C6_PassThrough ==
    /\ [][(pc = "blocks" /\ block_index < Len(content_blocks)
              /\ NoCitations(content_blocks[block_index + 1]))
            => /\ formatted_text' = formatted_text \o content_blocks[block_index + 1].text
               /\ references' = references
               /\ pc' = "blocks"]_vars
    /\ [](( pc = "done" /\ NoBlockCited)
            => /\ formatted_text = JoinedTexts(content_blocks)
               /\ ~Occurs(ReferencesHeader, formatted_text)
               /\ references = <<>>)

\* A finished response of two blocks, neither cited, one with text.
C6_Witness ==
    /\ pc = "done"
    /\ Len(content_blocks) = 2
    /\ NoBlockCited
    /\ content_blocks[1].citations.tag = "absent"
    /\ content_blocks[2].citations.tag = "val"
    /\ content_blocks[2].text # <<>>

\* A raw character of a block text (markers are made of other characters).
IsRawChar(ch) == ch \in {"a", "b"}

\* Some intact copy of marker in text has no raw character after it.
MarkerClosesText(marker, text) ==
    \E i \in 0..Len(text) :
        /\ OccursAt(marker, text, i)
        /\ \A j \in (i + Len(marker) + 1)..Len(text) : ~IsRawChar(text[j])

C8_NoOffsetAtEnd ==
    (pc = "citations" /\ citation_index > 0)
        => LET last == placed[Len(placed)]
           IN  (/\ CitationType(last.citation) = "char_location"
                /\ last.citation.end_char_index.tag \in {"absent", "none"})
                   => /\ current_text = last.before \o Marker(last.number)
                      /\ (citation_index = 1 =>
                             current_text = CurrentBlock.text \o Marker(last.number))

(***************************************************************************)
(* C9 (as claimed)  Formatting never ends in an error because of citation  *)
(* metadata: whatever optional fields are missing or None, the call        *)
(* completes and the returned text contains every block's raw text.        *)
(***************************************************************************)
C9_NeverRaises ==
    /\ pc # "raised"
    /\ pc = "done"
          => \A b \in 1..Len(content_blocks) :
                IsSubsequence(content_blocks[b].text, formatted_text)

(***************************************************************************)
(* ClaudeClient.format_citations.  A citation is read with getattr, so a   *)
(* dict-shaped citation yields the default of every field.                 *)
(***************************************************************************)
StreamCitation(shp, type, docIndex, title, cited, startChar, endChar) ==
    [shape            |-> shp,
     type             |-> type,
     document_index   |-> docIndex,
     document_title   |-> title,
     cited_text       |-> cited,
     start_char_index |-> startChar,
     end_char_index   |-> endChar]

\* getattr(citation, name, default)
Attr(c, field, default) == IF c.shape = "dict" THEN default ELSE GetOr(field, default)

\* The sort key getattr(x, 'start_char_index', 0)
StartKey(c) == Attr(c, c.start_char_index, IntVal(0))

\* sorted() compares the keys: None against anything raises TypeError.
SortRaises(citations) ==
    /\ Len(citations) >= 2
    /\ \E k \in 1..Len(citations) : StartKey(citations[k]).tag = "none"

RECURSIVE InsertByStart(_, _)
InsertByStart(sorted, x) ==
    IF sorted = <<>> THEN <<x>>
    ELSE IF StartKey(Head(sorted)).n >= StartKey(x).n
         THEN <<Head(sorted)>> \o InsertByStart(Tail(sorted), x)
         ELSE <<x>> \o sorted

RECURSIVE SortedByStart(_)
\* sorted(citations, key=start_char_index, reverse=True): descending and stable
SortedByStart(citations) ==
    IF citations = <<>> THEN <<>>
    ELSE InsertByStart(SortedByStart(SubSeq(citations, 1, Len(citations) - 1)),
                       citations[Len(citations)])

\* doc_idx = getattr(citation, 'document_index', 0)
DocIdx(c) == Attr(c, c.document_index, IntVal(0))

\* f'Source {doc_idx + 1}' is evaluated for every citation: None + 1 raises.
TitleRaises(c) == DocIdx(c).tag = "none"

\* doc_title = getattr(citation, 'document_title', f'Source {doc_idx + 1}')
StreamTitle(c) ==
    TitleText(Attr(c, c.document_title,
                   StrVal(<<"S", "o", "u", "r", "c", "e", " ">> \o IntToStr(DocIdx(c).n + 1))))

\* f" [{doc_title}]"
TitleMarker(c) == <<" ", "[">> \o StreamTitle(c) \o <<"]">>

\* end_idx = getattr(citation, 'end_char_index', len(formatted_text))
StreamEndIdx(c, text) == Attr(c, c.end_char_index, IntVal(Len(text)))

RECURSIVE WithMarkers(_, _)
\* The text after the markers of the citations are spliced in, in this order.
WithMarkers(text, citations) ==
    IF citations = <<>> THEN text
    ELSE WithMarkers(Splice(text, StreamEndIdx(Head(citations), text),
                            TitleMarker(Head(citations))),
                     Tail(citations))

\* The citation at k is the first of its document_index in the list.
FirstOfDoc(citations, k) ==
    \A j \in 1..(k - 1) : DocIdx(citations[j]) # DocIdx(citations[k])

\* getattr(citation, 'cited_text', '').strip() raises on None.
CitedRaises(citations) ==
    \E k \in 1..Len(citations) :
        /\ FirstOfDoc(citations, k)
        /\ Attr(citations[k], citations[k].cited_text, StrVal(<<>>)).tag = "none"

\* "\n{title}: \"{text}\"" of the first citation of a document
DocLine(c) ==
    <<"\n">> \o StreamTitle(c) \o <<":", " ", "\"">>
    \o Strip(Attr(c, c.cited_text, StrVal(<<>>)).s) \o <<"\"">>

\* The document indexes cited, and the lines of sorted(cited_docs.items()).
RECURSIVE DocLines(_, _)
DocLines(citations, docs) ==
    IF docs = {} THEN <<>>
    ELSE LET least == CHOOSE d \in docs : \A e \in docs : d <= e
             first == CHOOSE k \in 1..Len(citations) :
                         DocIdx(citations[k]).n = least /\ FirstOfDoc(citations, k)
         IN  DocLine(citations[first]) \o DocLines(citations, docs \ {least})

\* "\n\n**References:**"
BlockReferencesHeader ==
    <<"\n", "\n", "*", "*", "R", "e", "f", "e", "r", "e", "n", "c", "e", "s", ":",
      "*", "*">>

\* format_citations raises on this block.
FormatRaises(block) ==
    /\ block.type = "text"
    /\ block.citations # <<>>
    /\ \/ SortRaises(block.citations)
       \/ \E k \in 1..Len(block.citations) : TitleRaises(block.citations[k])
       \/ CitedRaises(block.citations)

\* The formatted text of one text block.
FormattedBlock(block) ==
    IF block.citations = <<>> THEN block.text
    ELSE WithMarkers(block.text, SortedByStart(block.citations))
         \o BlockReferencesHeader
         \o DocLines(block.citations,
                     {DocIdx(block.citations[k]).n : k \in 1..Len(block.citations)})

RECURSIVE Join(_, _)
\* sep.join(parts)
Join(parts, sep) ==
    IF parts = <<>> THEN <<>>
    ELSE IF Len(parts) = 1 THEN parts[1]
    ELSE parts[1] \o sep \o Join(Tail(parts), sep)

BlankLine == <<"\n", "\n">>

RECURSIVE FormattedBlocks(_)
\* formatted_blocks: one entry per block of type 'text'
FormattedBlocks(content) ==
    IF content = <<>> THEN <<>>
    ELSE (IF Head(content).type = "text" THEN <<FormattedBlock(Head(content))>> ELSE <<>>)
         \o FormattedBlocks(Tail(content))

\* format_citations(content), when it does not raise
FormatCitations(content) == Join(FormattedBlocks(content), BlankLine)

\* format_citations(content) raises
FormatCitationsRaises(content) == \E k \in 1..Len(content) : FormatRaises(content[k])

\* type('TextBlock', (), {'type': 'text', 'text': ..., 'citations': ...})
TextBlock(text, citations) == [type |-> "text", text |-> text, citations |-> citations]

(***************************************************************************)
(* handle_streaming_response: one step per event taken from the stream.    *)
(* The sender side (phase, sent, well_formed, deltas) records what was     *)
(* delivered; the handler never reads it.                                  *)
(***************************************************************************)
MaxDeltas == 3

\* Text fragments a text_delta carries.
Fragments == {<<"a">>, <<"b">>}

\* Citations a citations_delta carries: two spans of documents 0 and 1, a
\* span enclosing the first, a page citation without character offsets, a
\* dict, a dataclass citation whose offsets are None, and one without text.
StreamCitations ==
    {StreamCitation("obj", "char_location", IntVal(0), StrVal(<<"P">>), StrVal(<<"a">>),
                    IntVal(0), IntVal(1)),
     StreamCitation("obj", "char_location", IntVal(1), StrVal(<<"Q">>), StrVal(<<"b">>),
                    IntVal(1), IntVal(2)),
     StreamCitation("obj", "char_location", IntVal(0), StrVal(<<"P">>), StrVal(<<"a", "b">>),
                    IntVal(0), IntVal(2)),
     StreamCitation("obj", "page_location", Absent, Absent, StrVal(<<"a", " ">>),
                    Absent, Absent),
     StreamCitation("dict", "char_location", IntVal(1), StrVal(<<"Q">>), StrVal(<<"b">>),
                    IntVal(1), IntVal(2)),
     StreamCitation("obj", "page_location", IntVal(0), StrVal(<<"P">>), StrVal(<<"a">>),
                    None, None),
     StreamCitation("obj", "char_location", IntVal(0), StrVal(<<"P">>), None,
                    IntVal(0), IntVal(1))}

\* process_claude_response is not running.
BatchIdle ==
    /\ content_blocks = <<>>
    /\ shape = "obj"
    /\ pc = "idle"
    /\ block_index = 0
    /\ sorted_citations = <<>>
    /\ citation_index = 0
    /\ current_text = <<>>
    /\ formatted_text = <<>>
    /\ references = <<>>
    /\ citation_counter = 1
    /\ placed = <<>>

StreamInit ==
    /\ BatchIdle
    /\ NoCalls
    /\ AppIdle
    /\ has_sources \in BOOLEAN
    /\ delta_shape \in {"attr", "dict"}
    /\ stream_pc = "running"
    /\ stream_text = <<>>
    /\ stream_citations = <<>>
    /\ text_blocks = <<>>
    /\ displayed = <<>>
    /\ result = <<>>
    /\ phase = "start"
    /\ sent = <<>>
    /\ well_formed = TRUE
    /\ deltas = 0

\* "\n\n".join(text_blocks)
Rendering(blocks) == Join(blocks, BlankLine)

\* Variant that writes the formatted text to the first entry: text_blocks[0] = text
WithFirst(blocks, text) == [blocks EXCEPT ![1] = text]

\* text_blocks with its last entry replaced: text_blocks[-1] = text
WithLast(blocks, text) == [blocks EXCEPT ![Len(blocks)] = text]

\* The sender's record after a fragment or a citation went out for the open block.
SentText(frag) ==
    IF sent = <<>> THEN sent
    ELSE [sent EXCEPT ![Len(sent)].text = @ \o frag]

SentCitation(c) ==
    IF sent = <<>> THEN sent
    ELSE [sent EXCEPT ![Len(sent)].citations = Append(@, c)]

\* Variant that returns only the last entry of text_blocks.
ReturnedLastBlock(blocks) == IF blocks = <<>> THEN <<>> ELSE blocks[Len(blocks)]

\* return "\n\n".join(text_blocks)
Returned(blocks) == Rendering(blocks)

\* The handler raises: nothing more is displayed or returned.
Raise ==
    /\ stream_pc' = "raised"
    /\ UNCHANGED <<stream_text, stream_citations, text_blocks, displayed, result>>

\* chunk.type == 'message_start': continue
MessageStart ==
    /\ stream_pc = "running"
    /\ phase = "start"
    /\ phase' = "awaiting"
    /\ UNCHANGED <<has_sources, delta_shape, stream_pc, stream_text, stream_citations,
                   text_blocks, displayed, result, sent, well_formed, deltas>>
    /\ UNCHANGED <<batch_vars, call_vars, app_vars>>

\* chunk.type == 'content_block_start'
ContentBlockStart ==
    /\ stream_pc = "running"
    /\ Len(sent) < MaxBlocks
    /\ stream_text' = <<>>
    /\ stream_citations' = <<>>
    /\ text_blocks' = Append(text_blocks, <<>>)
    /\ phase' = "inblock"
    /\ sent' = Append(sent, [text |-> <<>>, citations |-> <<>>])
    /\ well_formed' = (well_formed /\ phase \in {"awaiting", "complete"})
    /\ UNCHANGED <<has_sources, delta_shape, stream_pc, displayed, result, deltas>>
    /\ UNCHANGED <<batch_vars, call_vars, app_vars>>

\* chunk.type == 'content_block_delta', chunk.delta.type == 'text_delta'
TextDelta ==
    /\ stream_pc = "running"
    /\ deltas < MaxDeltas
    /\ \E frag \in Fragments :
          /\ sent' = SentText(frag)
          /\ IF \/ delta_shape = "dict"
                \/ text_blocks = <<>>
                \/ has_sources /\ FormatCitationsRaises(
                                     <<TextBlock(stream_text \o frag, stream_citations)>>)
             THEN Raise
             ELSE /\ stream_text' = stream_text \o frag
                  /\ text_blocks' =
                        WithLast(text_blocks,
                                 IF has_sources
                                 THEN FormatCitations(
                                         <<TextBlock(stream_text \o frag, stream_citations)>>)
                                 ELSE stream_text \o frag)
                  /\ displayed' = Rendering(text_blocks')
                  /\ UNCHANGED <<stream_pc, stream_citations, result>>
    /\ deltas' = deltas + 1
    /\ well_formed' = (well_formed /\ phase = "inblock")
    /\ UNCHANGED <<has_sources, delta_shape, phase>>
    /\ UNCHANGED <<batch_vars, call_vars, app_vars>>

\* chunk.type == 'content_block_delta', chunk.delta.type == 'citations_delta'
CitationsDelta ==
    /\ stream_pc = "running"
    /\ deltas < MaxDeltas
    /\ \E c \in StreamCitations :
          /\ sent' = SentCitation(c)
          /\ IF \/ delta_shape = "dict"
                \/ has_sources /\ FormatCitationsRaises(
                                     <<TextBlock(stream_text, Append(stream_citations, c))>>)
                \/ has_sources /\ text_blocks = <<>>
             THEN Raise
             ELSE /\ stream_citations' = Append(stream_citations, c)
                  /\ IF has_sources
                     THEN /\ text_blocks' =
                                WithLast(text_blocks,
                                         FormatCitations(
                                            <<TextBlock(stream_text,
                                                        Append(stream_citations, c))>>))
                          /\ displayed' = Rendering(text_blocks')
                     ELSE UNCHANGED <<text_blocks, displayed>>
                  /\ UNCHANGED <<stream_pc, stream_text, result>>
    /\ deltas' = deltas + 1
    /\ well_formed' = (well_formed /\ phase = "inblock")
    /\ UNCHANGED <<has_sources, delta_shape, phase>>
    /\ UNCHANGED <<batch_vars, call_vars, app_vars>>

\* if current_text and (not text_blocks or text_blocks[-1] != current_text)
StoresAgain == stream_text # <<>> /\ (text_blocks = <<>> \/ text_blocks[Len(text_blocks)] # stream_text)

\* Variant of content_block_stop in which the formatter sorts the citation
\* accumulator in place (citations.sort(...)) instead of sorting a copy.
ContentBlockStopSortsInPlace ==
    /\ stream_pc = "running"
    /\ phase = "inblock"
    /\ IF StoresAgain
       THEN IF has_sources /\ FormatCitationsRaises(<<TextBlock(stream_text, stream_citations)>>)
            THEN Raise
            ELSE /\ text_blocks' =
                       Append(text_blocks,
                              IF has_sources
                              THEN FormatCitations(<<TextBlock(stream_text, stream_citations)>>)
                              ELSE stream_text)
                 /\ stream_citations' = IF has_sources THEN SortedByStart(stream_citations)
                                        ELSE stream_citations
                 /\ UNCHANGED <<stream_pc, stream_text, displayed, result>>
       ELSE UNCHANGED <<stream_pc, stream_text, stream_citations, text_blocks, displayed,
                        result>>
    /\ phase' = "complete"
    /\ UNCHANGED <<has_sources, delta_shape, sent, well_formed, deltas>>
    /\ UNCHANGED <<batch_vars, call_vars, app_vars>>

\* chunk.type == 'content_block_stop'
ContentBlockStop ==
    /\ stream_pc = "running"
    /\ phase = "inblock"
    /\ IF StoresAgain
       THEN IF has_sources /\ FormatCitationsRaises(<<TextBlock(stream_text, stream_citations)>>)
            THEN Raise
            ELSE /\ text_blocks' =
                       Append(text_blocks,
                              IF has_sources
                              THEN FormatCitations(<<TextBlock(stream_text, stream_citations)>>)
                              ELSE stream_text)
                 /\ UNCHANGED <<stream_pc, stream_text, stream_citations, displayed, result>>
       ELSE UNCHANGED <<stream_pc, stream_text, stream_citations, text_blocks, displayed,
                        result>>
    /\ phase' = "complete"
    /\ UNCHANGED <<has_sources, delta_shape, sent, well_formed, deltas>>
    /\ UNCHANGED <<batch_vars, call_vars, app_vars>>

\* chunk.type == 'message_stop': break, then return "\n\n".join(text_blocks)
MessageStop ==
    /\ stream_pc = "running"
    /\ stream_pc' = "returned"
    /\ result' = Returned(text_blocks)
    /\ phase' = "stopped"
    /\ well_formed' = (well_formed /\ phase \in {"awaiting", "complete"})
    /\ UNCHANGED <<has_sources, delta_shape, stream_text, stream_citations, text_blocks,
                   displayed, sent, deltas>>
    /\ UNCHANGED <<batch_vars, call_vars, app_vars>>

\* chunk.type == 'error': no branch of the handler takes it
ErrorEvent ==
    /\ stream_pc = "running"
    /\ phase # "failed"
    /\ phase' = "failed"
    /\ well_formed' = FALSE
    /\ UNCHANGED <<has_sources, delta_shape, stream_pc, stream_text, stream_citations,
                   text_blocks, displayed, result, sent, deltas>>
    /\ UNCHANGED <<batch_vars, call_vars, app_vars>>

\* The stream is exhausted without message_stop: the loop ends and returns.
StreamEnds ==
    /\ stream_pc = "running"
    /\ stream_pc' = "returned"
    /\ result' = Returned(text_blocks)
    /\ UNCHANGED <<has_sources, delta_shape, stream_text, stream_citations, text_blocks,
                   displayed, phase, sent, well_formed, deltas>>
    /\ UNCHANGED <<batch_vars, call_vars, app_vars>>

\* The stream still holds a content_block_start after message_stop: the loop
\* was left by break, so the event is never read.
NotConsumed ==
    /\ stream_pc = "returned"
    /\ phase = "stopped"
    /\ Len(sent) < MaxBlocks
    /\ sent' = Append(sent, [text |-> <<>>, citations |-> <<>>])
    /\ well_formed' = FALSE
    /\ UNCHANGED <<has_sources, delta_shape, stream_pc, stream_text, stream_citations,
                   text_blocks, displayed, result, phase, deltas>>
    /\ UNCHANGED <<batch_vars, call_vars, app_vars>>

StreamNext ==
    \/ MessageStart
    \/ ContentBlockStart
    \/ TextDelta
    \/ CitationsDelta
    \/ ContentBlockStop
    \/ MessageStop
    \/ ErrorEvent
    \/ StreamEnds
    \/ NotConsumed

SpecStream == StreamInit /\ [][StreamNext]_vars

\* What one block contributes to the rendering, from what was sent for it.
Contribution(blk) ==
    IF has_sources THEN FormatCitations(<<TextBlock(blk.text, blk.citations)>>)
    ELSE blk.text

\* One contribution per block started so far, in block order.
Contributions == [i \in 1..Len(sent) |-> Contribution(sent[i])]

C11_StoppedBlockImmutable ==
    [][(stream_pc = "running" /\ phase = "complete" /\ stream_pc' = "running")
          => /\ Len(text_blocks') >= Len(text_blocks)
             /\ \A i \in 1..Len(text_blocks) : text_blocks'[i] = text_blocks[i]]_vars

\* Entries of text_blocks, joined by a blank line, written out.
RECURSIVE JoinedByBlankLine(_)
JoinedByBlankLine(blocks) ==
    IF blocks = <<>> THEN <<>>
    ELSE IF Len(blocks) = 1 THEN blocks[1]
    ELSE blocks[1] \o <<"\n", "\n">> \o JoinedByBlankLine(Tail(blocks))

(***************************************************************************)
(* C12  message_stop is terminal: the step that processes it returns the   *)
(* rendering ("\n\n".join(text_blocks)) as it stands, and after it no      *)
(* event changes the handler's state or the value returned.                *)
(***************************************************************************)
C12_StopIsTerminal ==
    /\ [][(stream_pc = "running" /\ phase' = "stopped")
             => /\ stream_pc' = "returned"
                /\ text_blocks' = text_blocks
                /\ result' = JoinedByBlankLine(text_blocks)]_vars
    /\ [][stream_pc = "returned"
             => UNCHANGED <<stream_pc, stream_text, stream_citations, text_blocks,
                            displayed, result>>]_vars

\* message_stop was processed with one block of text, and a second block's
\* start, delivered after it, was never read.
C12_Witness ==
    /\ stream_pc = "returned"
    /\ phase = "stopped"
    /\ ~has_sources
    /\ Len(text_blocks) = 1
    /\ text_blocks[1] # <<>>
    /\ Len(sent) = 2

(***************************************************************************)
(* C13 (as claimed)  An error event is terminal: after it no event changes *)
(* the rendering, so every block stored before the error stays as it was.  *)
(***************************************************************************)
C13_ErrorIsTerminal ==
    [][phase = "failed"
          => /\ text_blocks' = text_blocks
             /\ displayed' = displayed]_vars

NewCall(blocks, shp) ==
    [content_blocks   |-> blocks,
     shape            |-> shp,
     pc               |-> "blocks",
     block_index      |-> 0,
     sorted_citations |-> <<>>,
     citation_index   |-> 0,
     current_text     |-> <<>>,
     formatted_text   |-> <<>>,
     references       |-> <<>>,
     citation_counter |-> 1]

\* The block loop: a block without citations, a block with citations, the end.
BlockStep(s) ==
    IF s.block_index = Len(s.content_blocks)
    THEN [s EXCEPT !.formatted_text = @ \o ReferencesSection(s.references),
                   !.pc = "done"]
    ELSE LET blk == s.content_blocks[s.block_index + 1]
         IN  IF NoCitations(blk)
             THEN [s EXCEPT !.formatted_text = @ \o PassedThrough(blk),
                            !.block_index = @ + 1]
             ELSE [s EXCEPT !.sorted_citations = SortedCitations(blk.citations.list, s.shape),
                            !.current_text = blk.text,
                            !.citation_index = 0,
                            !.block_index = @ + 1,
                            !.pc = "citations"]

\* The citation loop: one citation, or the end of the block.
CitationStep(s) ==
    IF s.citation_index = Len(s.sorted_citations)
    THEN [s EXCEPT !.formatted_text = @ \o s.current_text, !.pc = "blocks"]
    ELSE LET c == s.sorted_citations[s.citation_index + 1]
         IN  IF RawCited(c).tag = "none"
             THEN [s EXCEPT !.pc = "raised"]
             ELSE LET title  == DocTitle(c, s.citation_counter)
                      cited  == StoredCited(CleanCited(RawCited(c).s))
                      key    == RefKey(title, cited)
                      refs   == Recorded(s.references, s.citation_counter, c)
                      number == refs[IndexOfKey(refs, key)].number
                      idx    == EndIdx(c, cited, s.current_text)
                  IN  [s EXCEPT !.references = refs,
                                !.citation_counter =
                                    IF KeyIsNew(s.references, key) THEN NextCounter(@)
                                    ELSE @,
                                !.current_text = Splice(@, idx, Marker(number)),
                                !.citation_index = @ + 1]

CallStep(s) ==
    IF s.pc = "blocks" THEN BlockStep(s)
    ELSE IF s.pc = "citations" THEN CitationStep(s)
    ELSE s

RECURSIVE RunCall(_)
\* The call run until it returns or raises.
RunCall(s) == IF s.pc \in {"done", "raised"} THEN s ELSE RunCall(CallStep(s))

\* process_claude_response(response) for a response of the given blocks
ProcessClaudeResponse(blocks, shp) == RunCall(NewCall(blocks, shp))

\* The batch machine above and the function agree at every state.
CallAgrees ==
    pc # "idle" =>
        LET s == [content_blocks   |-> content_blocks,
                  shape            |-> shape,
                  pc               |-> pc,
                  block_index      |-> block_index,
                  sorted_citations |-> sorted_citations,
                  citation_index   |-> citation_index,
                  current_text     |-> current_text,
                  formatted_text   |-> formatted_text,
                  references       |-> references,
                  citation_counter |-> citation_counter]
        IN  RunCall(s) = ProcessClaudeResponse(content_blocks, shape)

\* A streamed citation as process_claude_response reads it (it reads no
\* document_index and no start_char_index).
AsBatchCitation(c) ==
    Citation(c.type, c.document_title, c.cited_text, c.end_char_index, Absent, Absent,
             Absent)

\* The completed blocks the stream delivered, as a batch response.
CompletedBlocks ==
    [i \in 1..Len(sent) |->
        Block(sent[i].text,
              ListVal([k \in 1..Len(sent[i].citations) |->
                          AsBatchCitation(sent[i].citations[k])]))]

(***************************************************************************)
(* C15 (as claimed)  When a well-formed stream has delivered its blocks    *)
(* and message_stop, the text handle_streaming_response returns is the     *)
(* text process_claude_response returns for the completed blocks.          *)
(***************************************************************************)
C15_StreamingIsBatch ==
    (/\ well_formed
     /\ stream_pc = "returned"
     /\ phase = "stopped"
     /\ \A i \in 1..Len(sent) :
           \A k \in 1..Len(sent[i].citations) : sent[i].citations[k].shape = "obj")
        => LET batch == ProcessClaudeResponse(CompletedBlocks, "obj")
           IN  batch.pc = "done" => result = batch.formatted_text

\* The recorded reference that carries number k.
EntryOf(k) == CHOOSE r \in {references[i] : i \in 1..Len(references)} : r.number = k

RECURSIVE EntriesFrom(_)
\* The entries numbered k, k + 1, ... up to the number of references, in a row.
EntriesFrom(k) ==
    IF k > Len(references) THEN <<>> ELSE RefText(EntryOf(k)) \o EntriesFrom(k + 1)

(***************************************************************************)
(* C16  With n distinct reference keys recorded, the numbers in use are    *)
(* exactly 1..n: the counter starts at 1, never decreases and advances by  *)
(* one exactly when a new key is recorded.  The references section is      *)
(* written after all block text and lists the entries numbered 1, 2, ..., n*)
(* in that order.                                                          *)
(***************************************************************************)
C16_SequentialNumbers ==
    /\ [](pc # "idle"
            => /\ {references[i].number : i \in 1..Len(references)} = 1..Len(references)
               /\ Cardinality({references[i].key : i \in 1..Len(references)})
                     = Len(references)
               /\ citation_counter = Len(references) + 1)
    /\ [][/\ citation_counter' >= citation_counter
          /\ Len(references') >= Len(references)
          /\ citation_counter' - citation_counter = Len(references') - Len(references)
          /\ citation_counter' - citation_counter <= 1]_vars
    /\ [][(pc = "blocks" /\ pc' = "done")
             => /\ block_index = Len(content_blocks)
                /\ formatted_text' =
                      formatted_text
                      \o (IF references = <<>> THEN <<>>
                          ELSE ReferencesHeader \o EntriesFrom(1))]_vars

\* A finished response that recorded two references in two different blocks.
C16_Witness ==
    /\ pc = "done"
    /\ Len(references) = 2
    /\ Len(content_blocks) = 2
    /\ \A b \in 1..2 : ~NoCitations(content_blocks[b])

(***************************************************************************)
(* C17 (as claimed)  process_claude_response adds the blocks'              *)
(* contributions in the order the blocks were given, and every             *)
(* contribution but the first is preceded by a blank line.                 *)
(***************************************************************************)
C17_BlankLineBetweenBlocks ==
    [][(\/ pc = "blocks" /\ pc' = "blocks" /\ block_index' = block_index + 1
        \/ pc = "citations" /\ pc' = "blocks")
          => LET contribution == IF pc = "citations" THEN current_text
                                 ELSE content_blocks[block_index'].text
                 separator    == IF block_index' > 1 THEN <<"\n", "\n">> ELSE <<>>
             IN  formatted_text' = formatted_text \o separator \o contribution]_vars

(***************************************************************************)
(* C18 (as claimed)  The title given to a citation without document_title  *)
(* does not depend on how many references were recorded before it: it is   *)
(* the title the citation gets when nothing has been recorded yet (the     *)
(* citations of a batch response carry no document index, so all of them   *)
(* are due the same default title).                                        *)
(***************************************************************************)
C18_DefaultTitleFixed ==
    \A i \in 1..Len(placed) :
        LET c == placed[i].citation
        IN  c.document_title.tag = "absent"
               => placed[i].key =
                     RefKey(DocTitle(c, 1), StoredCited(CleanCited(RawCited(c).s)))

(***************************************************************************)
(* Two calls of process_claude_response in progress at once (two sessions  *)
(* of the application), their steps interleaved in any order.              *)
(***************************************************************************)
\* Citations of one block.
CallCites == 3

\* A citation low in the text and two citations that end at the same offset.
CallCitations ==
    {CharAt(IntVal(1), StrVal(<<"P">>), StrVal(<<"a">>)),
     CharAt(IntVal(3), StrVal(<<"P">>), StrVal(<<"a">>)),
     CharAt(IntVal(3), StrVal(<<"Q">>), StrVal(<<"a">>))}

\* Responses of one block of text with up to CallCites citations.
CallResponses ==
    UNION {{<<Block(TextOf(MaxLen), ListVal(cs))>> : cs \in [1..k -> CallCitations]}
           : k \in 0..CallCites}

\* The callers.
Callers == 1..2

\* Variant in which the citation counter is the first call's (one counter for
\* all calls).
SharedCounterLocals(cs, i) == [cs[i] EXCEPT !.citation_counter = cs[1].citation_counter]

\* The locals call i works on: its own, created when the call is entered.
OwnLocals(cs, i) == cs[i]

CallsInit ==
    /\ BatchIdle
    /\ StreamIdle
    /\ AppIdle
    /\ calls \in [Callers -> {NewCall(r, "obj") : r \in CallResponses}]

\* One step of one of the calls.
CallRuns ==
    /\ \E i \in Callers :
          /\ calls[i].pc \notin {"done", "raised"}
          /\ calls' = [calls EXCEPT ![i] = CallStep(OwnLocals(calls, i))]
    /\ UNCHANGED <<batch_vars, stream_vars, app_vars>>

CallsNext == CallRuns

SpecCalls == CallsInit /\ [][CallsNext]_vars

\* The citations of a response, block after block, in list order.
RECURSIVE AllCitations(_)
AllCitations(blocks) ==
    IF blocks = <<>> THEN <<>>
    ELSE (IF NoCitations(Head(blocks)) THEN <<>> ELSE Head(blocks).citations.list)
         \o AllCitations(Tail(blocks))

\* The (title, cited text) pair a citation carries.
PairOf(c) == <<c.document_title, c.cited_text>>

RECURSIVE FirstSeen(_, _)
\* The distinct pairs of a citation list in the order of their first occurrence.
FirstSeen(list, seen) ==
    IF list = <<>> THEN seen
    ELSE FirstSeen(Tail(list),
                   IF \E k \in 1..Len(seen) : seen[k] = PairOf(Head(list)) THEN seen
                   ELSE Append(seen, PairOf(Head(list))))

\* Two citation lists hold the same citations, each as many times.
SameCitations(l1, l2) ==
    /\ Len(l1) = Len(l2)
    /\ \A k \in 1..Len(l1) :
          Cardinality({j \in 1..Len(l1) : l1[j] = l1[k]})
             = Cardinality({j \in 1..Len(l2) : l2[j] = l1[k]})

\* Two responses: the same texts and, block by block, the same citations.
SameCitationsPerBlock(b1, b2) ==
    /\ Len(b1) = Len(b2)
    /\ \A k \in 1..Len(b1) :
          /\ b1[k].text = b2[k].text
          /\ NoCitations(b1[k]) = NoCitations(b2[k])
          /\ ~NoCitations(b1[k])
                => SameCitations(b1[k].citations.list, b2[k].citations.list)

\* The number each recorded reference key was given by a call.
NumberOfKey(s) == {<<s.references[k].key, s.references[k].number>> :
                      k \in 1..Len(s.references)}

(***************************************************************************)
(* C19 (as claimed)  Two responses with the same citations in every block, *)
(* listed in different orders inside the blocks but with the same order of *)
(* first occurrence of the (title, cited text) pairs, give every pair the  *)
(* same reference number.                                                  *)
(***************************************************************************)
C19_OrderIndependent ==
    (/\ calls # <<>>
     /\ \A i \in Callers : calls[i].pc = "done"
     /\ calls[1].shape = calls[2].shape
     /\ SameCitationsPerBlock(calls[1].content_blocks, calls[2].content_blocks)
     /\ FirstSeen(AllCitations(calls[1].content_blocks), <<>>)
           = FirstSeen(AllCitations(calls[2].content_blocks), <<>>))
        => NumberOfKey(calls[1]) = NumberOfKey(calls[2])

DerivesAgain ==
    /\ has_sources
    /\ stream_pc = "running" /\ stream_pc' = "running"
    /\ phase = "inblock" /\ phase' = "complete"
    /\ Len(text_blocks') = Len(text_blocks) + 1

OpenBlock == stream_pc = "running" /\ phase = "inblock" /\ sent # <<>>

\* The message went out with documents whenever the stream carries citations
\* (has_sources = bool(current_sources), and only documents are cited).
CitationsNeedSources == has_sources \/ \A k \in 1..Len(sent) : sent[k].citations = <<>>

SameIndex(i, j) ==
    /\ i < j
    /\ PlacedHere[i].end_idx.tag = "val"
    /\ PlacedHere[j].end_idx = PlacedHere[i].end_idx
    /\ PlacedHere[i].end_idx.n \in 0..Len(CurrentBlock.text)
    /\ PlacedHere[i].number # PlacedHere[j].number

\* C23 (as claimed): when two citations of a block resolve to the same
\* insertion index, the marker of the one processed later stands to the right
\* of the marker of the one processed earlier in the text of the block.
C23_LaterMarkerToTheRight ==
    (BlockDone /\ Len(PlacedHere) = 2) =>
        \A i, j \in 1..Len(PlacedHere) :
            SameIndex(i, j) =>
                Find(Marker(PlacedHere[i].number), current_text)
                    < Find(Marker(PlacedHere[j].number), current_text)

\* ---------------------------------------------------------------------------
\* Page numbers and page tags: one call of process_claude_response on a
\* response of one block with one page citation
\* ---------------------------------------------------------------------------

\* A page_location citation whose page metadata is absent, None or a number.
PageCitation(page, title, cited) ==
    Citation("page_location", title, cited, Absent, page, Absent, page)

\* "[Page 3]"
PageThree == PageTag \o <<" ", "3", "]">>

\* Cited texts: a page tag on a line of its own before one line or two lines
\* of quote, a page tag on the line of the quote, no tag, and texts that are
\* empty once cleaned.
PageTexts ==
    {PageThree \o <<"\n", "q">>,
     PageThree \o <<"\n", "q", "\n", "r">>,
     PageThree \o <<" ", "q">>,
     <<"q">>,
     <<>>,
     <<" ">>,
     <<STX>>}

\* Page numbers of the metadata: pages are numbered from 1.
PageMetas == {Absent, None, IntVal(7)}

PageResponses ==
    {<<Block(<<"a", "b">>, ListVal(<<PageCitation(p, StrVal(<<"P">>), StrVal(x))>>))>> :
        p \in PageMetas, x \in PageTexts}

PagesInit ==
    /\ BatchIdle
    /\ StreamIdle
    /\ AppIdle
    /\ calls \in [{1} -> {NewCall(r, shp) : r \in PageResponses, shp \in {"obj", "dict"}}]

\* One step of the call.
PageCallRuns ==
    /\ calls[1].pc \notin {"done", "raised"}
    /\ calls' = [calls EXCEPT ![1] = CallStep(calls[1])]
    /\ UNCHANGED <<batch_vars, stream_vars, app_vars>>

PagesNext == PageCallRuns

SpecPages == PagesInit /\ [][PagesNext]_vars

\* The citation of the call, and its cited text after cleaning.
PageCited == calls[1].content_blocks[1].citations.list[1]

PageCleaned == CleanCited(RawCited(PageCited).s)

\* The text that follows the first line of cited, trimmed.
AfterFirstLine(cited) == Strip(SubSeq(cited, Find(<<"\n">>, cited) + 2, Len(cited)))

\* C24 (as claimed): for a citation whose cited text starts with a [Page N]
\* line, the entry shows the page number of the metadata when one is
\* supplied and N otherwise, and the quoted text stored is the cited text
\* without that first line.
C24_PageAndMarkerLine ==
    (calls[1].pc = "done" /\ HasPageTag(PageCleaned) /\ Occurs(<<"\n">>, PageCleaned)) =>
        LET entry == calls[1].references[1]
            meta  == PageCited.start_page_number
        IN  /\ entry.page_number = IF meta.tag = "val" THEN meta ELSE StrVal(<<"3">>)
            /\ entry.cited_text = AfterFirstLine(PageCleaned)

\* " (Page 7)" when the metadata holds page 7, nothing when it holds none
PageSuffix(meta) ==
    IF meta.tag = "val"
    THEN <<" ", "(", "P", "a", "g", "e", " ">> \o IntToStr(meta.n) \o <<")">>
    ELSE <<>>

\* C25: a citation whose cited text is empty once cleaned still gets the
\* marker " [1]" and number 1; its entry is "[1] title" without a quoted
\* segment, followed by " (Page N)" exactly when the metadata holds a page
\* number N.
C25_EmptyCitedEntry ==
    (calls[1].pc = "done" /\ PageCleaned = <<>>) =>
        calls[1].formatted_text =
            calls[1].content_blocks[1].text \o Marker(1) \o ReferencesHeader
            \o BareEntry(PageCited.document_title.s)
            \o PageSuffix(PageCited.start_page_number)
            \o <<"\n", "\n">>

\* A finished call on a citation whose text was only whitespace, with a page.
C25_Witness ==
    /\ calls[1].pc = "done"
    /\ RawCited(PageCited).s = <<" ">>
    /\ PageCited.start_page_number.tag = "val"
    /\ Len(calls[1].references) = 1
    /\ calls[1].references[1].cited_text = <<>>

\* ---------------------------------------------------------------------------
\* Marker placement of format_citations and format_response_text: one call
\* of either function on a text and a list of char_location citations
\* ---------------------------------------------------------------------------

\* The length of the text cited, and the most citations in a call.
MaxSpan == 3

SpanCites == 2

\* A char_location citation of document P over text[startChar:endChar];
\* every field is present.
SpanCitation(text, startChar, endChar) ==
    StreamCitation("obj", "char_location", IntVal(0), StrVal(<<"P">>),
                   StrVal(SubSeq(text, startChar + 1, endChar)),
                   IntVal(startChar), IntVal(endChar))

\* The citations of non-empty spans of the text: overlapping and nested
\* spans are among them.
SpanCitations(text) ==
    {SpanCitation(text, span[1], span[2]) :
        span \in {p \in (0..Len(text)) \X (0..Len(text)) : p[1] < p[2]}}

SpanLists(text, most) == UNION {[1..k -> SpanCitations(text)] : k \in 0..most}

\* citation.get(name, default) on a citation given as a dict
Get(field, default) == GetOr(field, default)

\* key=lambda x: x.get('start_char_index', 0) if x.get('type') == 'char_location' else 0
ResponseStartKey(c) ==
    IF c.type = "char_location" THEN Get(c.start_char_index, IntVal(0)) ELSE IntVal(0)

RECURSIVE InsertByResponseStart(_, _)
InsertByResponseStart(sorted, x) ==
    IF sorted = <<>> THEN <<x>>
    ELSE IF ResponseStartKey(Head(sorted)).n >= ResponseStartKey(x).n
         THEN <<Head(sorted)>> \o InsertByResponseStart(Tail(sorted), x)
         ELSE <<x>> \o sorted

RECURSIVE SortedByResponseStart(_)
\* sorted(citations, key=..., reverse=True): descending and stable
SortedByResponseStart(citations) ==
    IF citations = <<>> THEN <<>>
    ELSE InsertByResponseStart(SortedByResponseStart(SubSeq(citations, 1, Len(citations) - 1)),
                               citations[Len(citations)])

\* doc_title = citation.get('document_title', f'Source {doc_idx + 1}')
ResponseTitle(c) ==
    TitleText(Get(c.document_title,
                  StrVal(<<"S", "o", "u", "r", "c", "e", " ">>
                         \o IntToStr(Get(c.document_index, IntVal(0)).n + 1))))

RECURSIVE ResponseWithMarkers(_, _)
\* The text after the loop over sorted_citations: only a char_location
\* citation has its marker f" [{doc_title}]" spliced in, at end_char_index.
ResponseWithMarkers(text, citations) ==
    IF citations = <<>> THEN text
    ELSE LET c == Head(citations)
         IN  ResponseWithMarkers(
                 IF c.type = "char_location"
                 THEN Splice(text, Get(c.end_char_index, IntVal(Len(text))),
                             <<" ", "[">> \o ResponseTitle(c) \o <<"]">>)
                 ELSE text,
                 Tail(citations))

\* The citation at k is the first of its document_index in the list.
ResponseFirstOfDoc(citations, k) ==
    \A j \in 1..(k - 1) :
        Get(citations[j].document_index, IntVal(0)) # Get(citations[k].document_index, IntVal(0))

RECURSIVE ResponseDocLines(_, _)
\* f"\n{doc['title']}: \"{doc['text']}\"" for doc_idx in sorted(cited_docs)
ResponseDocLines(citations, docs) ==
    IF docs = {} THEN <<>>
    ELSE LET least == CHOOSE d \in docs : \A e \in docs : d <= e
             first == CHOOSE k \in 1..Len(citations) :
                         /\ Get(citations[k].document_index, IntVal(0)).n = least
                         /\ ResponseFirstOfDoc(citations, k)
             c     == citations[first]
         IN  <<"\n">> \o ResponseTitle(c) \o <<":", " ", "\"">>
             \o Strip(Get(c.cited_text, StrVal(<<>>)).s) \o <<"\"">>
             \o ResponseDocLines(citations, docs \ {least})

\* format_response_text(text, citations)
FormatResponseText(text, citations) ==
    IF citations = <<>> THEN text
    ELSE ResponseWithMarkers(text, SortedByResponseStart(citations))
         \o BlockReferencesHeader \o <<"\n">>
         \o ResponseDocLines(citations,
                {Get(citations[k].document_index, IntVal(0)).n : k \in 1..Len(citations)})

\* A call of one of the two functions, just entered.
FormatCall(fn, text, citations) ==
    [fn |-> fn, text |-> text, citations |-> citations, pc |-> "called", result |-> <<>>]

FormatInit ==
    /\ BatchIdle
    /\ StreamIdle
    /\ AppIdle
    /\ calls \in [{1} -> {FormatCall(fn, TextOf(MaxSpan), cs) :
                             fn \in {"format_citations", "format_response_text"},
                             cs \in SpanLists(TextOf(MaxSpan), SpanCites)}]

\* ClaudeClient.format_citations([TextBlock(text, citations)]) returns.
FormatCitationsReturns ==
    /\ calls[1].pc = "called"
    /\ calls[1].fn = "format_citations"
    /\ ~FormatCitationsRaises(<<TextBlock(calls[1].text, calls[1].citations)>>)
    /\ calls' = [calls EXCEPT
                   ![1].result = FormatCitations(<<TextBlock(calls[1].text,
                                                            calls[1].citations)>>),
                   ![1].pc = "returned"]
    /\ UNCHANGED <<batch_vars, stream_vars, app_vars>>

\* format_response_text(text, citations) returns.
FormatResponseTextReturns ==
    /\ calls[1].pc = "called"
    /\ calls[1].fn = "format_response_text"
    /\ calls' = [calls EXCEPT
                   ![1].result = FormatResponseText(calls[1].text, calls[1].citations),
                   ![1].pc = "returned"]
    /\ UNCHANGED <<batch_vars, stream_vars, app_vars>>

FormatNext == FormatCitationsReturns \/ FormatResponseTextReturns

SpecFormat == FormatInit /\ [][FormatNext]_vars

\* The order in which the call splices the markers of its citations.
SpliceOrder ==
    IF calls[1].fn = "format_citations" THEN SortedByStart(calls[1].citations)
    ELSE SortedByResponseStart(calls[1].citations)

\* " [P]", the marker of every citation of the call
SpanMarker == <<" ", "[", "P", "]">>

RECURSIVE SpanMarkerOffsets(_, _)
\* For each intact marker of s, from the left, the number of characters
\* outside intact markers before it.
SpanMarkerOffsets(s, raw) ==
    IF s = <<>> THEN <<>>
    ELSE IF StartsWith(s, SpanMarker)
         THEN <<raw>> \o SpanMarkerOffsets(SubSeq(s, Len(SpanMarker) + 1, Len(s)), raw)
         ELSE SpanMarkerOffsets(Tail(s), raw + 1)

\* The end offsets of the citations of the call, ascending.
SpanEnds == Ascending([k \in 1..Len(calls[1].citations) |->
                          calls[1].citations[k].end_char_index.n])

\* C26 (as claimed): for every list of char citations, overlapping and nested
\* spans included, the markers are spliced in non-increasing order of
\* end_char_index, and in the result each marker stands right after the
\* raw position end_char_index of its citation.
C26_MarkersAtEnds ==
    calls[1].pc = "returned" =>
        /\ \A i, j \in 1..Len(SpliceOrder) :
              i < j => SpliceOrder[i].end_char_index.n >= SpliceOrder[j].end_char_index.n
        /\ SpanMarkerOffsets(calls[1].result, 0) = SpanEnds

\* ---------------------------------------------------------------------------
\* The prompts table: add_prompt and delete_prompt called from the script
\* threads of two browser sessions
\* ---------------------------------------------------------------------------

\* The most add_prompt calls begun.
MaxAdds == 3

PromptNames == {"base", "alt"}

\* Streamlit runs the script of each session in a thread of its own; every
\* call opens its own connection (get_db_connection).
ScriptThreads == 1..2

\* The rowid SQLite gives the next row of an INTEGER PRIMARY KEY table: one
\* more than the largest rowid in the table, 1 for an empty table.
NextRowId(rows) ==
    IF rows = {} THEN 1
    ELSE (CHOOSE r \in rows : \A o \in rows : o.id <= r.id).id + 1

\* SELECT MAX(version) FROM prompts WHERE name = ?: NULL when no row matches
MaxVersion(rows, name) ==
    LET named == {r \in rows : r.name = name}
    IN  IF named = {} THEN None
        ELSE IntVal((CHOOSE r \in named : \A o \in named : o.version <= r.version).version)

\* current_version = c.fetchone()[0] or 0
CurrentVersion(rows, name) ==
    IF TruthyInt(MaxVersion(rows, name)) THEN MaxVersion(rows, name).n ELSE 0

\* A thread that is not inside add_prompt.
NoPromptCall == [pc |-> "idle", name |-> "", current_version |-> 0]

PromptsInit ==
    /\ BatchIdle
    /\ StreamIdle
    /\ NoCalls
    /\ prompts = {}
    /\ questions = {}
    /\ sources = {}
    /\ workers = [w \in ScriptThreads |-> NoPromptCall]
    /\ session_state = <<>>
    /\ clock = 0
    /\ audit = <<>>

\* add_prompt, up to the SELECT: the SELECT runs outside any transaction
\* (sqlite3 opens one only before the INSERT).
AddPromptReads ==
    /\ Len(audit) < MaxAdds
    /\ \E w \in ScriptThreads, name \in PromptNames :
          /\ workers[w].pc = "idle"
          /\ workers' = [workers EXCEPT ![w] = [pc              |-> "read",
                                                name            |-> name,
                                                current_version |-> CurrentVersion(prompts, name)]]
          /\ audit' = Append(audit, [call |-> "add_prompt", name |-> name])
    /\ UNCHANGED <<prompts, questions, sources, session_state, clock>>
    /\ UNCHANGED <<batch_vars, stream_vars, call_vars>>

\* add_prompt, the INSERT and the commit
AddPromptInserts ==
    /\ \E w \in ScriptThreads :
          /\ workers[w].pc = "read"
          /\ prompts' = prompts \cup {[id         |-> NextRowId(prompts),
                                       name       |-> workers[w].name,
                                       version    |-> workers[w].current_version + 1,
                                       created_at |-> clock]}
          /\ workers' = [workers EXCEPT ![w] = NoPromptCall]
    /\ clock' = clock + 1
    /\ UNCHANGED <<questions, sources, session_state, audit>>
    /\ UNCHANGED <<batch_vars, stream_vars, call_vars>>

\* delete_prompt(prompt_id) of a stored prompt
DeletePrompt ==
    /\ \E row \in prompts : prompts' = prompts \ {row}
    /\ UNCHANGED <<questions, sources, workers, session_state, clock, audit>>
    /\ UNCHANGED <<batch_vars, stream_vars, call_vars>>

PromptsNext == AddPromptReads \/ AddPromptInserts \/ DeletePrompt

SpecPrompts == PromptsInit /\ [][PromptsNext]_vars

\* C27 (as claimed): whatever add_prompt and delete_prompt calls were made,
\* two add_prompt calls for one name interleaved between the SELECT and the
\* INSERT included, no two stored prompts have the same name and version.
C27_NameVersionUnique ==
    \A r, o \in prompts : (r.name = o.name /\ r.version = o.version) => r = o

\* ---------------------------------------------------------------------------
\* The questions and sources tables: add_question, delete_question and
\* get_sources_for_question
\* ---------------------------------------------------------------------------

\* The most calls of add_question and delete_question.
MaxCalls == 3

\* '{"type": "text", "text": "' and '"}' around the text of a page
JsonPageOpen ==
    <<"{", "\"", "t", "y", "p", "e", "\"", ":", " ", "\"", "t", "e", "x", "t", "\"", ",", " ",
      "\"", "t", "e", "x", "t", "\"", ":", " ", "\"">>

JsonPageClose == <<"\"", "}">>

RECURSIVE JsonEscape(_)
\* The characters of a string as json.dumps writes them.
JsonEscape(s) ==
    IF s = <<>> THEN <<>>
    ELSE (IF Head(s) = "\"" THEN <<"\\", "\"">>
          ELSE IF Head(s) = "\\" THEN <<"\\", "\\">>
          ELSE IF Head(s) = "\n" THEN <<"\\", "n">>
          ELSE <<Head(s)>>)
         \o JsonEscape(Tail(s))

\* json.dumps(source["content"]) for a list of pages {"type": "text", "text": ...}
JsonDumps(pages) ==
    <<"[">>
    \o Join([k \in 1..Len(pages) |-> JsonPageOpen \o JsonEscape(pages[k]) \o JsonPageClose],
            <<",", " ">>)
    \o <<"]">>

RECURSIVE JsonString(_, _)
\* Reads a JSON string body up to its closing quote: the text read so far and
\* what follows the quote.
JsonString(s, text) ==
    IF s = <<>> THEN [text |-> text, rest |-> <<>>]
    ELSE IF Head(s) = "\"" THEN [text |-> text, rest |-> Tail(s)]
    ELSE IF Head(s) = "\\" /\ Len(s) >= 2
         THEN JsonString(Tail(Tail(s)),
                         Append(text, IF s[2] = "n" THEN "\n" ELSE s[2]))
    ELSE JsonString(Tail(s), Append(text, Head(s)))

RECURSIVE JsonPages(_)
\* The pages of what follows the opening bracket.
JsonPages(s) ==
    IF s = <<>> \/ Head(s) = "]" THEN <<>>
    ELSE IF StartsWith(s, JsonPageOpen)
         THEN LET read == JsonString(SubSeq(s, Len(JsonPageOpen) + 1, Len(s)), <<>>)
              IN  <<read.text>> \o JsonPages(read.rest)
    ELSE JsonPages(Tail(s))

\* json.loads(content_json)
JsonLoads(s) == JsonPages(Tail(s))

\* A source dictionary as add_question receives it: its pages are texts.
SourceOf(title, pages) == [title |-> title, content |-> pages]

\* Sources: one page, two pages whose texts need escaping, no page, and a
\* source whose title is None (title TEXT NOT NULL rejects it).
GoodSources ==
    {SourceOf(StrVal(<<"A">>), << <<"x">> >>),
     SourceOf(StrVal(<<"B">>), << <<"\"", ",", " ">>, <<"\\", "\n", "}">> >>),
     SourceOf(StrVal(<<"A">>), <<>>)}

BadSource == SourceOf(None, << <<"x">> >>)

SourceLists(from) == UNION {[1..k -> from] : k \in 0..2}

QuestionsInit ==
    /\ BatchIdle
    /\ StreamIdle
    /\ NoCalls
    /\ prompts = {}
    /\ questions = {}
    /\ sources = {}
    /\ workers = <<>>
    /\ session_state = <<>>
    /\ clock = 0
    /\ audit = <<>>

RECURSIVE WithSources(_, _, _)
\* The sources table after add_source for each source of the list, in order.
WithSources(rows, question_id, list) ==
    IF list = <<>> THEN rows
    ELSE WithSources(rows \cup {[id          |-> NextRowId(rows),
                                 question_id |-> question_id,
                                 title       |-> Head(list).title.s,
                                 content     |-> JsonDumps(Head(list).content)]},
                     question_id, Tail(list))

\* add_question(name, content, sources) commits: one question row and one
\* source row per source, in one transaction.
AddQuestion ==
    /\ Len(audit) < MaxCalls
    /\ \E list \in SourceLists(GoodSources) :
          LET id == NextRowId(questions)
          IN  /\ questions' = questions \cup {[id |-> id, name |-> "q", created_at |-> clock]}
              /\ sources' = WithSources(sources, id, list)
              /\ audit' = Append(audit, [call       |-> "add_question",
                                         id         |-> id,
                                         created_at |-> clock,
                                         passed     |-> list])
    /\ clock' = clock + 1
    /\ UNCHANGED <<prompts, workers, session_state>>
    /\ UNCHANGED <<batch_vars, stream_vars, call_vars>>

\* add_question raises inside add_source: leaving the with block rolls the
\* transaction back, the question row included.
AddQuestionRaises ==
    /\ Len(audit) < MaxCalls
    /\ \E list \in SourceLists(GoodSources \cup {BadSource}) :
          /\ \E k \in 1..Len(list) : list[k] = BadSource
          /\ audit' = Append(audit, [call       |-> "add_question raised",
                                     id         |-> 0,
                                     created_at |-> clock,
                                     passed     |-> list])
    /\ UNCHANGED <<prompts, questions, sources, workers, session_state, clock>>
    /\ UNCHANGED <<batch_vars, stream_vars, call_vars>>

\* Variant of delete_question that deletes the question row only.
DeleteQuestionRowOnly(question_id) ==
    /\ questions' = {q \in questions : q.id # question_id}
    /\ sources' = sources

\* delete_question(question_id): DELETE FROM sources WHERE question_id = ?,
\* then DELETE FROM questions WHERE id = ?
DeleteQuestionRows(question_id) ==
    /\ sources' = {s \in sources : s.question_id # question_id}
    /\ questions' = {q \in questions : q.id # question_id}

\* delete_question of a stored question
DeleteQuestion ==
    /\ Len(audit) < MaxCalls
    /\ \E q \in questions :
          /\ DeleteQuestionRows(q.id)
          /\ audit' = Append(audit, [call       |-> "delete_question",
                                     id         |-> q.id,
                                     created_at |-> clock,
                                     passed     |-> <<>>])
    /\ UNCHANGED <<prompts, workers, session_state, clock>>
    /\ UNCHANGED <<batch_vars, stream_vars, call_vars>>

QuestionsNext == AddQuestion \/ AddQuestionRaises \/ DeleteQuestion

SpecQuestions == QuestionsInit /\ [][QuestionsNext]_vars

RECURSIVE RowsById(_)
\* The rows of a SELECT without ORDER BY: SQLite scans the table by rowid.
RowsById(rows) ==
    IF rows = {} THEN <<>>
    ELSE LET first == CHOOSE r \in rows : \A o \in rows : r.id <= o.id
         IN  <<first>> \o RowsById(rows \ {first})

\* get_sources_for_question(question_id) on the given sources table
GetSourcesForQuestion(rows, question_id) ==
    LET found == RowsById({s \in rows : s.question_id = question_id})
    IN  [k \in 1..Len(found) |-> [title   |-> found[k].title,
                                  content |-> JsonLoads(found[k].content)]]

\* The sources passed to the add_question call that created the question.
PassedTo(q) ==
    LET made == CHOOSE k \in 1..Len(audit) :
                   /\ audit[k].call = "add_question"
                   /\ audit[k].created_at = q.created_at
    IN  [k \in 1..Len(audit[made].passed) |->
            [title   |-> audit[made].passed[k].title.s,
             content |-> audit[made].passed[k].content]]

\* Every source row belongs to a stored question, and every stored question
\* has exactly the sources it was created with.
SourcesMatchQuestions ==
    /\ \A s \in sources : \E q \in questions : q.id = s.question_id
    /\ \A q \in questions : GetSourcesForQuestion(sources, q.id) = PassedTo(q)

\* A step of delete_question keeps every other question and its sources.
DeleteKeepsOthers ==
    (audit' # audit /\ audit'[Len(audit')].call = "delete_question") =>
        \A q \in questions :
            q.id # audit'[Len(audit')].id =>
                /\ q \in questions'
                /\ GetSourcesForQuestion(sources', q.id)
                      = GetSourcesForQuestion(sources, q.id)

MaxEvents == 5

\* f"confirm_delete_question_{question.id}" / f"confirm_delete_prompt_{prompt.id}"
ConfirmKey(kind, id) == <<"confirm_delete", kind, id>>

\* One click, as the history keeps it: the item is the row the button
\* belonged to, told apart from other rows by id and created_at.
Click(kind, row, deleted) ==
    [event |-> "delete", kind |-> kind, id |-> row.id, created_at |-> row.created_at,
     deleted |-> deleted]

Added(kind, id) ==
    [event |-> "add", kind |-> kind, id |-> id, created_at |-> clock, deleted |-> FALSE]

DeleteInit ==
    /\ BatchIdle
    /\ StreamIdle
    /\ NoCalls
    /\ prompts = {}
    /\ questions = {}
    /\ sources = {}
    /\ workers = <<>>
    /\ session_state = {}
    /\ clock = 0
    /\ audit = <<>>

\* "Add Question" with a name, a text and one source: add_question commits.
ClickAddQuestion ==
    /\ Len(audit) < MaxEvents
    /\ LET id == NextRowId(questions)
       IN  /\ questions' = questions \cup {[id |-> id, name |-> "q", created_at |-> clock]}
           /\ sources' = WithSources(sources, id,
                                     <<SourceOf(StrVal(<<"A">>), << <<"x">> >>)>>)
           /\ audit' = Append(audit, Added("question", id))
    /\ clock' = clock + 1
    /\ UNCHANGED <<prompts, workers, session_state>>
    /\ UNCHANGED <<batch_vars, stream_vars, call_vars>>

\* "Add Prompt" with a name and a content: add_prompt runs to its commit.
ClickAddPrompt ==
    /\ Len(audit) < MaxEvents
    /\ \E name \in PromptNames :
          LET id == NextRowId(prompts)
          IN  /\ prompts' = prompts \cup {[id         |-> id,
                                           name       |-> name,
                                           version    |-> CurrentVersion(prompts, name) + 1,
                                           created_at |-> clock]}
              /\ audit' = Append(audit, Added("prompt", id))
    /\ clock' = clock + 1
    /\ UNCHANGED <<questions, sources, workers, session_state>>
    /\ UNCHANGED <<batch_vars, stream_vars, call_vars>>

\* The Delete button of a question: delete_question when the confirmation
\* flag of the question's id is set, else the flag is set and a warning shown.
ClickDeleteQuestion ==
    /\ Len(audit) < MaxEvents
    /\ \E q \in questions :
          IF ConfirmKey("question", q.id) \in session_state
          THEN /\ DeleteQuestionRows(q.id)
               /\ audit' = Append(audit, Click("question", q, TRUE))
               /\ UNCHANGED session_state
          ELSE /\ session_state' = session_state \cup {ConfirmKey("question", q.id)}
               /\ audit' = Append(audit, Click("question", q, FALSE))
               /\ UNCHANGED <<questions, sources>>
    /\ UNCHANGED <<prompts, workers, clock>>
    /\ UNCHANGED <<batch_vars, stream_vars, call_vars>>

\* The Delete button of a prompt
ClickDeletePrompt ==
    /\ Len(audit) < MaxEvents
    /\ \E p \in prompts :
          IF ConfirmKey("prompt", p.id) \in session_state
          THEN /\ prompts' = prompts \ {p}
               /\ audit' = Append(audit, Click("prompt", p, TRUE))
               /\ UNCHANGED session_state
          ELSE /\ session_state' = session_state \cup {ConfirmKey("prompt", p.id)}
               /\ audit' = Append(audit, Click("prompt", p, FALSE))
               /\ UNCHANGED prompts
    /\ UNCHANGED <<questions, sources, workers, clock>>
    /\ UNCHANGED <<batch_vars, stream_vars, call_vars>>

DeleteNext ==
    ClickAddQuestion \/ ClickAddPrompt \/ ClickDeleteQuestion \/ ClickDeletePrompt

SpecDelete == DeleteInit /\ [][DeleteNext]_vars

\* The clicks j and k of the history were on the Delete button of one item.
SameItem(j, k) ==
    /\ audit[j].event = "delete"
    /\ audit[k].event = "delete"
    /\ audit[j].kind = audit[k].kind
    /\ audit[j].id = audit[k].id
    /\ audit[j].created_at = audit[k].created_at

\* C29 (as claimed): every Delete click that called delete_question or
\* delete_prompt for an item came after an earlier Delete click on the same
\* item, one that only set the confirmation flag; hence the first click on an
\* item deletes nothing.
C29_TwoClicksToDelete ==
    \A k \in 1..Len(audit) :
        (audit[k].event = "delete" /\ audit[k].deleted) =>
            \E j \in 1..(k - 1) : SameItem(j, k) /\ ~audit[j].deleted

\* ---------------------------------------------------------------------------
\* The form of add_question_section: one action per run of the script
\* ---------------------------------------------------------------------------

\* The source slots of the form (range(10) in the code), the most pages that
\* hold text at once, and the most questions saved.
SourceSlots == 1

MaxFilled == 2

MaxSaves == 1

\* if num_pages < 10: the Add Page button is shown
PageLimit == 10

Slots == 0..(SourceSlots - 1)

PageContents == {<<>>, <<"x">>}

SourceNames == {<<>>, <<"S">>}

\* The entries the script keeps in st.session_state.  source_pages[i] maps
\* the page indexes 0..k-1 to their content and is kept as the list of the
\* contents: the script writes the keys in order and deletes only the last.
FormState(counts, pages, names) ==
    [source_page_counts |-> counts, source_pages |-> pages, source_names |-> names]

\* {i: 1 for i in range(10)}, {i: {} for i in range(10)}, {i: "" for i in range(10)}
EmptyForm ==
    FormState([i \in Slots |-> 1], [i \in Slots |-> <<>>], [i \in Slots |-> <<>>])

\* The last run of the script: the button clicked, its slot, the form as it
\* was when the button was reached, and what came of it.
Ran(click, slot, before, outcome) ==
    [click |-> click, slot |-> slot, before |-> before, outcome |-> outcome]

FormInit ==
    /\ BatchIdle
    /\ StreamIdle
    /\ NoCalls
    /\ prompts = {}
    /\ questions = {}
    /\ sources = {}
    /\ workers = <<>>
    /\ session_state = EmptyForm
    /\ clock = 0
    /\ audit = Ran("none", 0, EmptyForm, "none")

\* The loop over the sources up to slot upto: every page shown gets its
\* text area's content stored, st.session_state.source_pages[i][j] =
\* page_content, a page never stored before being shown empty.
Shown(form, upto) ==
    [form EXCEPT !.source_pages =
        [i \in Slots |->
            IF i <= upto
            THEN [j \in 1..form.source_page_counts[i] |->
                     IF j <= Len(form.source_pages[i]) THEN form.source_pages[i][j]
                     ELSE <<>>]
            ELSE form.source_pages[i]]]

\* The pages that hold text.
Filled(form) ==
    {<<i, j>> \in Slots \X (1..PageLimit) :
        j <= Len(form.source_pages[i]) /\ form.source_pages[i][j] # <<>>}

\* The user changes the text of one page: the script runs, no button clicked.
EditPage ==
    /\ \E i \in Slots, content \in PageContents :
          \E j \in 1..session_state.source_page_counts[i] :
              LET form == [Shown(session_state, SourceSlots - 1)
                              EXCEPT !.source_pages[i][j] = content]
              IN  /\ Cardinality(Filled(form)) <= MaxFilled
                  /\ session_state' = form
                  /\ audit' = Ran("none", i, form, "none")
    /\ UNCHANGED <<prompts, questions, sources, workers, clock>>
    /\ UNCHANGED <<batch_vars, stream_vars, call_vars>>

\* The user changes the name of one source.
EditName ==
    /\ \E i \in Slots, name \in SourceNames :
          LET form == [Shown(session_state, SourceSlots - 1)
                          EXCEPT !.source_names[i] = name]
          IN  /\ session_state' = form
              /\ audit' = Ran("none", i, form, "none")
    /\ UNCHANGED <<prompts, questions, sources, workers, clock>>
    /\ UNCHANGED <<batch_vars, stream_vars, call_vars>>

\* "Add Page to Source i+1": the sources up to i are shown, the count
\* grows and st.rerun() ends the run.
AddPage ==
    /\ \E i \in Slots :
          LET form == Shown(session_state, i)
          IN  /\ form.source_page_counts[i] < PageLimit
              /\ session_state' = [form EXCEPT !.source_page_counts[i] = @ + 1]
              /\ audit' = Ran("add_page", i, form, "none")
    /\ UNCHANGED <<prompts, questions, sources, workers, clock>>
    /\ UNCHANGED <<batch_vars, stream_vars, call_vars>>

\* Variant that clears every stored page of the source.
WithoutAnyPage(pages, num_pages) == <<>>

\* if num_pages - 1 in source_pages[i]: del source_pages[i][num_pages - 1]
WithoutLastPage(pages, num_pages) ==
    IF Len(pages) >= num_pages THEN SubSeq(pages, 1, num_pages - 1) ELSE pages

\* "Remove Last Page from Source i+1"
RemovePage ==
    /\ \E i \in Slots :
          LET form == Shown(session_state, i)
              num_pages == form.source_page_counts[i]
          IN  /\ num_pages > 1
              /\ session_state' =
                    [form EXCEPT !.source_page_counts[i] = @ - 1,
                                 !.source_pages[i] = WithoutLastPage(@, num_pages)]
              /\ audit' = Ran("remove_page", i, form, "none")
    /\ UNCHANGED <<prompts, questions, sources, workers, clock>>
    /\ UNCHANGED <<batch_vars, stream_vars, call_vars>>

\* f"[Page {j+1}]\n{page_content}" for the pages of a source that hold text
RECURSIVE PagesOf(_, _)
PagesOf(pages, j) ==
    IF j > Len(pages) THEN <<>>
    ELSE (IF pages[j] # <<>>
          THEN <<PageTag \o <<" ">> \o IntToStr(j) \o <<"]", "\n">> \o pages[j]>>
          ELSE <<>>)
         \o PagesOf(pages, j + 1)

\* The sources list: the sources that have a name and a page with text.
RECURSIVE SourcesOf(_, _)
SourcesOf(form, i) ==
    IF i >= SourceSlots THEN <<>>
    ELSE (IF PagesOf(form.source_pages[i], 1) # <<>> /\ form.source_names[i] # <<>>
          THEN <<SourceOf(StrVal(form.source_names[i]), PagesOf(form.source_pages[i], 1))>>
          ELSE <<>>)
         \o SourcesOf(form, i + 1)

\* "Add Question" with a name, a text and a source: add_question commits and
\* the form state is reset.
AddQuestionSaves ==
    /\ clock < MaxSaves
    /\ LET form == Shown(session_state, SourceSlots - 1)
           id   == NextRowId(questions)
       IN  /\ SourcesOf(form, 0) # <<>>
           /\ questions' = questions \cup {[id |-> id, name |-> "q", created_at |-> clock]}
           /\ sources' = WithSources(sources, id, SourcesOf(form, 0))
           /\ session_state' = EmptyForm
           /\ audit' = Ran("add_question", 0, form, "saved")
    /\ clock' = clock + 1
    /\ UNCHANGED <<prompts, workers>>
    /\ UNCHANGED <<batch_vars, stream_vars, call_vars>>

\* "Add Question" that st.error answers: the name, the text or the sources
\* are missing, or add_question raised.
AddQuestionRejected ==
    /\ \E outcome \in {"no name", "no text", "no sources", "raised"} :
          LET form == Shown(session_state, SourceSlots - 1)
          IN  /\ outcome = "no sources" => SourcesOf(form, 0) = <<>>
              /\ outcome = "raised" => SourcesOf(form, 0) # <<>>
              /\ session_state' = form
              /\ audit' = Ran("add_question", 0, form, outcome)
    /\ UNCHANGED <<prompts, questions, sources, workers, clock>>
    /\ UNCHANGED <<batch_vars, stream_vars, call_vars>>

FormNext ==
    EditPage \/ EditName \/ AddPage \/ RemovePage \/ AddQuestionSaves \/ AddQuestionRejected

SpecForm == FormInit /\ [][FormNext]_vars

====
